---------------------------- MODULE Spec2Model ----------------------------
(***************************************************************************)
(* Model of the GitHub PR bot (src/app.py): the webhook handler, the run   *)
(* it starts (collect, summarize, deliver), the chunked Discord notifier   *)
(* send_to_discord and the summary splitter it contains.                   *)
(*                                                                         *)
(* Text is modelled run-length encoded: a string is a sequence of runs     *)
(* <<ch, k>> (k >= 1 copies of the character ch), adjacent runs holding    *)
(* different characters.  Lengths, slices, strip(), split('\n\n') and      *)
(* concatenation are computed on that encoding exactly as Python computes  *)
(* them on the characters, so the 1900-character threshold of the code is  *)
(* kept as it is.                                                          *)
(***************************************************************************)
EXTENDS Integers, Sequences, FiniteSets, TLC

VARIABLES
    pc,              \* position of the call: idle, overview, chunk, reviews, done, split
    summary,         \* send_to_discord's argument summary
    reviews,         \* pr_info['reviews'], in fetch order
    event_action,    \* send_to_discord's argument event_action
    summary_chunks,  \* the local list summary_chunks
    i,               \* number of chunk posts completed by the for loop
    posts,           \* the requests.post calls made so far, in order, with their outcome
    result,          \* the value returned by send_to_discord ("none" while it runs)
    ppc,             \* position of the webhook request: listening, then the step of the run, then responded
    request,         \* the request being handled: signature, body, event type, payload fields
    pr_info,         \* the dict pr_info of get_pr_comprehensive_info, keys added as the code adds them
    calls,           \* the GitHub fetches and generation requests made so far, in order
    generated,       \* the value returned by get_comprehensive_summary_from_groq
    success,         \* the value returned by process_pr_event ("none" until it returns)
    response,        \* the HTTP response of github_webhook
    embed,           \* the embed returned by format_for_discord
    upstream,        \* the pull request object GitHub answered the core fetch with
    context,         \* the local string context of get_comprehensive_summary_from_groq, by section
    runs,            \* the local variables of each of two concurrent runs of process_pr_event
    analyzer,        \* position of a call of GitHubPRAnalyzer.get_pr_files: idle, running, returned, raised
    page,            \* get_pr_files' local variable page
    all_files,       \* get_pr_files' local list all_files
    requested,       \* the page requests get_pr_files has made, in order, with what each was answered
    returned         \* the value get_pr_files returned, as a sequence of one element

\* The variables of get_pr_files (src/pr_changes_summary.py).
pager == <<analyzer, page, all_files, requested, returned>>

\* The variables of the webhook request and its run.
pipe == <<ppc, request, pr_info, calls, generated, success, response, embed,
          upstream, context, runs, pager>>

vars == <<pc, summary, reviews, event_action, summary_chunks, i, posts, result,
          ppc, request, pr_info, calls, generated, success, response, embed,
          upstream, context, runs, pager>>

-----------------------------------------------------------------------------
(* Bounds of the model *)

\* Largest number of text pieces a drawn summary is joined from.
MaxSections == 3
\* Largest number of reviews the record holds.
MaxReviews == 3

-----------------------------------------------------------------------------
(* Strings *)

SP == " "
NL == "\n"
Whitespace == {SP, NL}

Empty == <<>>

\* ch * k
Rep(ch, k) == IF k <= 0 THEN <<>> ELSE << <<ch, k>> >>

\* len(s)
RECURSIVE StrLen(_)
StrLen(s) == IF s = <<>> THEN 0 ELSE s[1][2] + StrLen(Tail(s))

\* s + t
Cat(s, t) ==
    IF s = <<>> THEN t
    ELSE IF t = <<>> THEN s
    ELSE IF s[Len(s)][1] = t[1][1]
         THEN SubSeq(s, 1, Len(s) - 1)
                \o << <<t[1][1], s[Len(s)][2] + t[1][2]>> >>
                \o Tail(t)
         ELSE s \o t

\* s[:n]
RECURSIVE Prefix(_, _)
Prefix(s, n) ==
    IF s = <<>> \/ n <= 0 THEN <<>>
    ELSE IF s[1][2] >= n THEN << <<s[1][1], n>> >>
    ELSE <<s[1]>> \o Prefix(Tail(s), n - s[1][2])

\* s.lstrip()
RECURSIVE LStrip(_)
LStrip(s) ==
    IF s = <<>> THEN <<>>
    ELSE IF s[1][1] \in Whitespace THEN LStrip(Tail(s))
    ELSE s

\* s.rstrip()
RECURSIVE RStrip(_)
RStrip(s) ==
    IF s = <<>> THEN <<>>
    ELSE IF s[Len(s)][1] \in Whitespace THEN RStrip(SubSeq(s, 1, Len(s) - 1))
    ELSE s

\* s.strip()
Strip(s) == RStrip(LStrip(s))

Separator == Rep(NL, 2)

\* s.split('\n\n'): the separators are matched left to right, so a run of k
\* newlines holds k \div 2 of them and, when k is odd, one newline is left
\* over at the start of the section that follows.
RECURSIVE SplitRuns(_, _, _)
SplitRuns(s, done, cur) ==
    IF s = <<>> THEN Append(done, cur)
    ELSE LET r == s[1] IN
         IF r[1] = NL /\ r[2] >= 2
         THEN SplitRuns(Tail(s),
                        Append(done, cur) \o [j \in 1..((r[2] \div 2) - 1) |-> <<>>],
                        Rep(NL, r[2] % 2))
         ELSE SplitRuns(Tail(s), done, Cat(cur, <<r>>))

SplitBlank(s) == SplitRuns(s, <<>>, <<>>)

\* '\n\n'.join(parts)
RECURSIVE JoinBlank(_)
JoinBlank(parts) ==
    IF parts = <<>> THEN <<>>
    ELSE IF Len(parts) = 1 THEN parts[1]
    ELSE Cat(Cat(parts[1], Separator), JoinBlank(Tail(parts)))

-----------------------------------------------------------------------------
(* The summary splitter of send_to_discord (src/app.py lines 246-263) *)

\* The threshold of "if len(summary) > 1900".
SplitThreshold == 1900
\* The threshold of "if len(current_chunk + section) > 1900".
ChunkLimit == 1900

\* PackStep with a section that overflows cut down to the limit.
PackStepCut(st, section) ==
    IF StrLen(Cat(st.current, section)) > ChunkLimit
    THEN [chunks  |-> IF st.current # Empty
                      THEN Append(st.chunks, Strip(st.current))
                      ELSE st.chunks,
          current |-> Prefix(section, ChunkLimit)]
    ELSE [chunks  |-> st.chunks,
          current |-> IF st.current # Empty
                      THEN Cat(st.current, Cat(Separator, section))
                      ELSE section]

\* PackStep without the packing: every section starts a chunk of its own.
PackStepAlone(st, section) ==
    [chunks  |-> IF st.current # Empty
                 THEN Append(st.chunks, Strip(st.current))
                 ELSE st.chunks,
     current |-> section]

\* One iteration of "for section in sections" on the loop state
\* st = [chunks |-> summary_chunks, current |-> current_chunk].
PackStep(st, section) ==
    IF StrLen(Cat(st.current, section)) > ChunkLimit
    THEN [chunks  |-> IF st.current # Empty
                      THEN Append(st.chunks, Strip(st.current))
                      ELSE st.chunks,
          current |-> section]
    ELSE [chunks  |-> st.chunks,
          current |-> IF st.current # Empty
                      THEN Cat(st.current, Cat(Separator, section))
                      ELSE section]

\* The iterations lo..hi of the loop, in order.  The range is halved instead
\* of peeled one iteration at a time: running lo..mid and then mid+1..hi from
\* the state reached is the same left-to-right loop, and it keeps the
\* evaluation shallow for a summary of many hundred sections.  (The test on
\* `left` is always true: it makes TLC evaluate the first half before it
\* enters the second.)
RECURSIVE PackLoop(_, _, _, _)
PackLoop(st, sections, lo, hi) ==
    IF lo > hi THEN st
    ELSE IF lo = hi THEN PackStep(st, sections[lo])
    ELSE LET mid  == (lo + hi) \div 2
             left == PackLoop(st, sections, lo, mid)
         IN  IF Len(left.chunks) >= 0
             THEN PackLoop(left, sections, mid + 1, hi)
             ELSE left

\* PackFlush without the flush: the chunk still being filled is dropped.
PackFlushMissing(st) == st.chunks

\* The flush after the loop: "if current_chunk: summary_chunks.append(...)".
PackFlush(st) ==
    IF st.current # Empty THEN Append(st.chunks, Strip(st.current)) ELSE st.chunks

\* summary_chunks as computed by lines 246-263.
SplitSummary(s) ==
    IF StrLen(s) > SplitThreshold
    THEN LET sections == SplitBlank(s) IN
         PackFlush(PackLoop([chunks |-> <<>>, current |-> Empty],
                            sections, 1, Len(sections)))
    ELSE <<s>>

-----------------------------------------------------------------------------
(* Inputs *)

\* Every sequence of 1..n elements of S.
SeqsUpTo(S, n) == UNION {[1..k -> S] : k \in 1..n}

\* Text pieces the drawn summaries are joined from with blank lines: short
\* and long sections, a section longer than the limit, sections with
\* whitespace at their ends, and pieces made of whitespace only.
SectionPieces ==
    { Empty,
      Rep("a", 1),
      Rep("a", 1000),
      Rep("b", 900),
      Rep("c", 200),
      Rep("b", 1901),
      Rep(SP, 1) \o Rep("b", 1) \o Rep(SP, 1),
      Rep(NL, 1) \o Rep("a", 1),
      Rep(SP, 1),
      Rep(NL, 1900) }

Summaries == {JoinBlank(p) : p \in SeqsUpTo(SectionPieces, MaxSections)}

-----------------------------------------------------------------------------
(* Rendering of the outbound messages *)

\* Summaries the delivery runs are given: one chunk, several chunks, a chunk
\* above the limit, and a long summary of blank lines only.
DeliveryPieces == {Empty, Rep("a", 1000), Rep("b", 900), Rep(NL, 1900)}

DeliverySummaries == {JoinBlank(p) : p \in SeqsUpTo(DeliveryPieces, MaxSections)}

EventActions == {"opened", "closed"}

\* The j-th review fetched: reviewers, verdicts and bodies differ from one
\* review to the next (no body, a body longer than the excerpt, a short body).
ReviewStates == <<"APPROVED", "CHANGES_REQUESTED", "COMMENTED", "DISMISSED">>
ReviewUsers == <<"p", "q", "r", "s">>
ReviewBodies == <<Empty, Rep("c", 100), Rep("d", 10)>>

ReviewOf(j) ==
    [user  |-> Rep(ReviewUsers[((j - 1) % 4) + 1], 4 + j),
     state |-> ReviewStates[((j - 1) % 4) + 1],
     body  |-> ReviewBodies[((j - 1) % 3) + 1]]

FetchedReviews(k) == [j \in 1..k |-> ReviewOf(j)]

\* "No comment"
NoComment ==
    << <<"N", 1>>, <<"o", 1>>, <<SP, 1>>, <<"c", 1>>, <<"o", 1>>,
       <<"m", 2>>, <<"e", 1>>, <<"n", 1>>, <<"t", 1>> >>

\* The verdict glyph (one character) of line 305.
StatusEmoji(state) ==
    CASE state = "APPROVED"          -> Rep("CHECK_MARK", 1)
      [] state = "CHANGES_REQUESTED" -> Rep("CROSS_MARK", 1)
      [] state = "COMMENTED"         -> Rep("THOUGHT_BALLOON", 1)
      [] OTHER                       -> Rep("MEMO", 1)

\* Length of the body excerpt of a key-reviews line.
ReviewExcerpt == 80
\* Length the key-reviews description is cut to.
ReviewTextCap == 500

\* Line 306: f"{status_emoji} **{user}**: {body[:80] or 'No comment'}\n"
ReviewLine(r) ==
    Cat(StatusEmoji(r.state),
    Cat(Rep(SP, 1),
    Cat(Rep("*", 2),
    Cat(r.user,
    Cat(Rep("*", 2),
    Cat(Rep(":", 1),
    Cat(Rep(SP, 1),
    Cat(IF r.body # Empty THEN Prefix(r.body, ReviewExcerpt) ELSE NoComment,
        Rep(NL, 1)))))))))

\* LastTwo taking rs[:2], the first two reviews.
FirstTwo(rs) == SubSeq(rs, 1, IF Len(rs) > 2 THEN 2 ELSE Len(rs))

\* rs[-2:]
LastTwo(rs) == SubSeq(rs, IF Len(rs) > 2 THEN Len(rs) - 1 ELSE 1, Len(rs))

\* Lines 303-306: the lines of the reviews rs, concatenated in order.
RECURSIVE ReviewText(_)
ReviewText(rs) ==
    IF rs = <<>> THEN Empty ELSE Cat(ReviewLine(rs[1]), ReviewText(Tail(rs)))

\* ChunkTitle numbering the only chunk too.
ChunkTitleAlwaysNumbered(idx, n) == <<"Analysis Summary", "Part", idx, n>>

\* Line 283: the title of chunk idx of n.
ChunkTitle(idx, n) ==
    IF n > 1 THEN <<"Analysis Summary", "Part", idx, n>>
    ELSE <<"Analysis Summary">>

\* Lines 269-274: the overview message (its embed is format_for_discord's).
MainMessage ==
    [kind        |-> "overview",
     part        |-> 0,
     title       |-> <<"PR", event_action>>,
     description |-> Empty,
     footer      |-> 0]

\* Lines 282-295: the message of chunk idx.
ChunkMessage(idx) ==
    [kind        |-> "chunk",
     part        |-> idx,
     title       |-> ChunkTitle(idx, Len(summary_chunks)),
     description |-> summary_chunks[idx],
     footer      |-> StrLen(summary_chunks[idx])]

\* Lines 303-320: the key-reviews message.
KeyReviewsMessage ==
    [kind        |-> "reviews",
     part        |-> 0,
     title       |-> <<"Key Reviews">>,
     description |-> Prefix(ReviewText(LastTwo(reviews)), ReviewTextCap),
     footer      |-> Len(reviews)]

\* Lines 302 and 308: whether the key-reviews message is sent.
KeyReviewsDue ==
    /\ reviews # <<>>
    /\ Len(reviews) > 1
    /\ ReviewText(LastTwo(reviews)) # Empty

-----------------------------------------------------------------------------
(* JSON values *)

\* A JSON value is a record tagged with its type, so that a null is a value
\* like any other and a field can be tested for it.
Str(s) == [t |-> "str", v |-> s]
Num(n) == [t |-> "int", v |-> n]
Obj(d) == [t |-> "obj", v |-> d]
None == [t |-> "null"]
Bool(b) == [t |-> "bool", v |-> b]
IsNone(x) == x.t = "null"

\* A dict is a function from its keys; {} has no key.
EmptyDict == [k \in {} |-> None]

\* dict.get(key, default): the default is returned only when the key is
\* absent; a key that is present with the value null yields None.
Get(d, key, default) == IF key \in DOMAIN d THEN d[key] ELSE default

\* d[key] = value.
Put(d, key, value) == [k \in DOMAIN d \cup {key} |-> IF k = key THEN value ELSE d[k]]

\* The two runs that process two events for the same PR at the same time, and
\* the local variables of a run that has just been handed its event.
Runs == {1, 2}
NewRun ==
    [pc |-> "received", reviews |-> <<>>, summary |-> Empty, summary_chunks |-> <<>>,
     i |-> 0, result |-> "none"]

\* The state before any request has arrived and before any response is sent.
NoRequest == [signature |-> "none"]
NoResponse == [status |-> 0, message |-> "none"]

-----------------------------------------------------------------------------
(* send_to_discord *)

\* What a requests.post followed by raise_for_status() can end in: no
\* exception, an HTTPError for a 4xx/5xx status, or a transport error.
PostOutcomes == {"ok", "http_error", "connection_error"}

\* Both failures are RequestExceptions, caught at line 328.
Raises(outcome) == outcome # "ok"

Init ==
    /\ pc = "idle"
    /\ summary = Empty
    /\ reviews = <<>>
    /\ event_action = "none"
    /\ summary_chunks = <<>>
    /\ i = 0
    /\ posts = <<>>
    /\ result = "none"
    /\ ppc = "listening"
    /\ request = NoRequest
    /\ pr_info = EmptyDict
    /\ calls = <<>>
    /\ generated = Empty
    /\ success = "none"
    /\ response = NoResponse
    /\ embed = EmptyDict
    /\ upstream = EmptyDict
    /\ context = EmptyDict
    /\ runs = [r \in Runs |-> NewRun]
    /\ analyzer = "idle"
    /\ page = 0
    /\ all_files = <<>>
    /\ requested = <<>>
    /\ returned = <<>>

\* A message is posted and the post ends in outcome.
Posted(msg, outcome) ==
    Append(posts,
           [kind |-> msg.kind, part |-> msg.part, title |-> msg.title,
            description |-> msg.description, footer |-> msg.footer,
            outcome |-> outcome])

\* Where the call goes once the chunk loop is over (lines 302-326).
LoopExit ==
    IF KeyReviewsDue THEN [pc |-> "reviews", result |-> "none"]
    ELSE [pc |-> "done", result |-> "True"]

\* Lines 244-274: the call is entered, the summary is split and the overview
\* message is built.
SendToDiscord(s, k, a) ==
    /\ pc = "idle"
    /\ pc' = "overview"
    /\ summary' = s
    /\ reviews' = FetchedReviews(k)
    /\ event_action' = a
    /\ summary_chunks' = SplitSummary(s)
    /\ i' = 0
    /\ UNCHANGED <<posts, result, pipe>>

\* PostOverview without raise_for_status(): an error status goes unnoticed.
PostOverviewUnchecked(outcome) ==
    /\ pc = "overview"
    /\ posts' = Posted(MainMessage, outcome)
    /\ IF outcome = "connection_error"
       THEN pc' = "done" /\ result' = "False"
       ELSE IF Len(summary_chunks) > 0
            THEN pc' = "chunk" /\ result' = "none"
            ELSE pc' = LoopExit.pc /\ result' = LoopExit.result
    /\ UNCHANGED <<summary, reviews, event_action, summary_chunks, i, pipe>>

\* Lines 276-278: the overview post.
PostOverview(outcome) ==
    /\ pc = "overview"
    /\ posts' = Posted(MainMessage, outcome)
    /\ IF Raises(outcome)
       THEN pc' = "done" /\ result' = "False"
       ELSE IF Len(summary_chunks) > 0
            THEN pc' = "chunk" /\ result' = "none"
            ELSE pc' = LoopExit.pc /\ result' = LoopExit.result
    /\ UNCHANGED <<summary, reviews, event_action, summary_chunks, i, pipe>>

\* PostChunk with the failure caught inside the loop: the loop goes on to
\* the next chunk.
PostChunkContinue(outcome) ==
    /\ pc = "chunk"
    /\ i < Len(summary_chunks)
    /\ posts' = Posted(ChunkMessage(i + 1), outcome)
    /\ i' = i + 1
    /\ IF i + 1 < Len(summary_chunks)
       THEN pc' = "chunk" /\ result' = "none"
       ELSE pc' = LoopExit.pc /\ result' = LoopExit.result
    /\ UNCHANGED <<summary, reviews, event_action, summary_chunks, pipe>>

\* PostChunk posting a failed chunk again.
PostChunkRetry(outcome) ==
    /\ pc = "chunk"
    /\ i < Len(summary_chunks)
    /\ posts' = Posted(ChunkMessage(i + 1), outcome)
    /\ IF Raises(outcome)
       THEN pc' = "chunk" /\ result' = "none" /\ i' = i
       ELSE /\ i' = i + 1
            /\ IF i + 1 < Len(summary_chunks)
               THEN pc' = "chunk" /\ result' = "none"
               ELSE pc' = LoopExit.pc /\ result' = LoopExit.result
    /\ UNCHANGED <<summary, reviews, event_action, summary_chunks, pipe>>

\* Lines 281-299: one iteration of the chunk loop.
PostChunk(outcome) ==
    /\ pc = "chunk"
    /\ i < Len(summary_chunks)
    /\ posts' = Posted(ChunkMessage(i + 1), outcome)
    /\ IF Raises(outcome)
       THEN pc' = "done" /\ result' = "False" /\ i' = i
       ELSE /\ i' = i + 1
            /\ IF i + 1 < Len(summary_chunks)
               THEN pc' = "chunk" /\ result' = "none"
               ELSE pc' = LoopExit.pc /\ result' = LoopExit.result
    /\ UNCHANGED <<summary, reviews, event_action, summary_chunks, pipe>>

\* PostKeyReviews with the failure of the post swallowed.
PostKeyReviewsIgnored(outcome) ==
    /\ pc = "reviews"
    /\ posts' = Posted(KeyReviewsMessage, outcome)
    /\ pc' = "done"
    /\ result' = "True"
    /\ UNCHANGED <<summary, reviews, event_action, summary_chunks, i, pipe>>

\* Lines 322-326: the key-reviews post and the return.
PostKeyReviews(outcome) ==
    /\ pc = "reviews"
    /\ posts' = Posted(KeyReviewsMessage, outcome)
    /\ pc' = "done"
    /\ result' = IF Raises(outcome) THEN "False" ELSE "True"
    /\ UNCHANGED <<summary, reviews, event_action, summary_chunks, i, pipe>>

Next ==
    \/ \E s \in DeliverySummaries, k \in 0..MaxReviews, a \in EventActions :
          SendToDiscord(s, k, a)
    \/ \E o \in PostOutcomes : PostOverview(o)
    \/ \E o \in PostOutcomes : PostChunk(o)
    \/ \E o \in PostOutcomes : PostKeyReviews(o)

Spec == Init /\ [][Next]_vars

-----------------------------------------------------------------------------
(* The splitter alone: a summary is drawn and split (lines 246-263) *)

SplitCall(s) ==
    /\ pc = "idle"
    /\ pc' = "split"
    /\ summary' = s
    /\ summary_chunks' = SplitSummary(s)
    /\ UNCHANGED <<reviews, event_action, i, posts, result, pipe>>

SplitNext == \E s \in Summaries : SplitCall(s)

SplitSpec == Init /\ [][SplitNext]_vars

-----------------------------------------------------------------------------
(* get_pr_comprehensive_info: what GitHub answers and how it is normalised *)

\* What a requests.get followed by raise_for_status() can end in.
FetchOutcomes == {"ok", "http_error", "connection_error"}

\* The shapes of a 2xx answer: every field filled, a body that is null, a user
\* object that is null, a user key that is absent.
CoreShapes == {"full", "null_body", "null_user", "no_user"}
ListShapes == {"full", "null_body", "null_user"}

\* The value a failed attribute access stands for: calling .get on None
\* raises AttributeError.
Raised == [t |-> "raise"]
HasRaised(e) == \E k \in DOMAIN e : e[k].t = "raise"

\* d.get(key, {}).get(inner, default).
GetIn(d, key, inner, default) ==
    LET o == Get(d, key, Obj(EmptyDict))
    IN  IF o.t = "obj" THEN Get(o.v, inner, default) ELSE Raised

\* d without the key.
Without(d, key) == [k \in DOMAIN d \ {key} |-> d[k]]

Login(name) == Obj([login |-> Str(name)])

\* The pull request object GitHub answers with.
PullData(shape) ==
    LET full == [title |-> Str(Rep("t", 12)),
                 body |-> Str(Rep("d", 250)),
                 state |-> Str("open"),
                 merged |-> Bool(FALSE),
                 created_at |-> Str("2024-01-01T00:00:00Z"),
                 updated_at |-> Str("2024-01-02T00:00:00Z"),
                 user |-> Login(Rep("o", 7)),
                 base |-> Obj([ref |-> Str("main")]),
                 head |-> Obj([ref |-> Str("feature")]),
                 additions |-> Num(10),
                 deletions |-> Num(2),
                 changed_files |-> Num(2),
                 html_url |-> Str("https://github.com/o/r/pull/7")]
    IN  CASE shape = "null_body" -> [full EXCEPT !.body = None]
          [] shape = "null_user" -> [full EXCEPT !.user = None]
          [] shape = "no_user" -> Without(full, "user")
          [] OTHER -> full

\* Lines 84-97.
Basic(pr_data) ==
    [title |-> Get(pr_data, "title", Str(Empty)),
     description |-> Get(pr_data, "body", Str(Empty)),
     state |-> Get(pr_data, "state", Str("")),
     created_at |-> Get(pr_data, "created_at", Str("")),
     updated_at |-> Get(pr_data, "updated_at", Str("")),
     user |-> GetIn(pr_data, "user", "login", Str(Empty)),
     base_branch |-> GetIn(pr_data, "base", "ref", Str("")),
     head_branch |-> GetIn(pr_data, "head", "ref", Str("")),
     additions |-> Get(pr_data, "additions", Num(0)),
     deletions |-> Get(pr_data, "deletions", Num(0)),
     changed_files |-> Get(pr_data, "changed_files", Num(0)),
     url |-> Get(pr_data, "html_url", Str(""))]

\* The inline review comments GitHub answers with: one long, one short.
CommentsData(shape) ==
    LET full == <<[user |-> Login(Rep("p", 1)), body |-> Str(Rep("c", 300)),
                   created_at |-> Str("2024-01-01T01:00:00Z"),
                   path |-> Str("src/app.py"), line |-> Num(3)],
                  [user |-> Login(Rep("q", 1)), body |-> Str(Rep("k", 10)),
                   created_at |-> Str("2024-01-01T02:00:00Z"),
                   path |-> Str("README.md"), line |-> Num(1)]>>
    IN  CASE shape = "null_body" -> [full EXCEPT ![2].body = None]
          [] shape = "null_user" -> [full EXCEPT ![2].user = None]
          [] OTHER -> full

\* Lines 109-115.
CommentEntry(comment) ==
    [user |-> GetIn(comment, "user", "login", Str(Empty)),
     body |-> Get(comment, "body", Str(Empty)),
     created_at |-> Get(comment, "created_at", Str("")),
     path |-> Get(comment, "path", Str("")),
     line |-> Get(comment, "line", Str(""))]

\* The discussion comments GitHub answers with.
IssueCommentsData(shape) ==
    LET full == <<[user |-> Login(Rep("r", 1)), body |-> Str(Rep("g", 220)),
                   created_at |-> Str("2024-01-01T03:00:00Z")]>>
    IN  CASE shape = "null_body" -> [full EXCEPT ![1].body = None]
          [] shape = "null_user" -> [full EXCEPT ![1].user = None]
          [] OTHER -> full

\* Lines 130-134.
IssueCommentEntry(comment) ==
    [user |-> GetIn(comment, "user", "login", Str(Empty)),
     body |-> Get(comment, "body", Str(Empty)),
     created_at |-> Get(comment, "created_at", Str(""))]

\* The k reviews GitHub answers with, those of FetchedReviews(k).
ReviewsData(k, shape) ==
    LET full == [j \in 1..k |->
                    [user |-> Login(ReviewOf(j).user),
                     state |-> Str(ReviewOf(j).state),
                     body |-> Str(ReviewOf(j).body),
                     submitted_at |-> Str("2024-01-01T04:00:00Z")]]
    IN  IF shape = "null_user" /\ k > 0 THEN [full EXCEPT ![k].user = None]
        ELSE full

\* Lines 149-154.
ReviewEntry(review) ==
    [user |-> GetIn(review, "user", "login", Str(Empty)),
     state |-> Get(review, "state", Str("")),
     body |-> Get(review, "body", Str(Empty)),
     submitted_at |-> Get(review, "submitted_at", Str(""))]

\* The changed files GitHub answers with.
FilesData ==
    <<[filename |-> Str("src/app.py"), status |-> Str("modified"),
       additions |-> Num(8), deletions |-> Num(2), changes |-> Num(10)],
      [filename |-> Str("requirements.txt"), status |-> Str("added"),
       additions |-> Num(2), deletions |-> Num(0), changes |-> Num(2)]>>

\* Lines 169-175.
FileEntry(file_info) ==
    [filename |-> Get(file_info, "filename", Str("")),
     status |-> Get(file_info, "status", Str("")),
     additions |-> Get(file_info, "additions", Num(0)),
     deletions |-> Get(file_info, "deletions", Num(0)),
     changes |-> Get(file_info, "changes", Num(0))]

\* The four secondary fetches in the order of the code, each named by the key
\* it fills.
SecondaryOrder == <<"comments", "issue_comments", "reviews", "files">>

\* What the fetch of one list answers with.
ListData(what, k, shape) ==
    CASE what = "comments" -> CommentsData(shape)
      [] what = "issue_comments" -> IssueCommentsData(shape)
      [] what = "reviews" -> ReviewsData(k, shape)
      [] OTHER -> FilesData

\* The normalised entries of one list.
Entries(what, data) ==
    [j \in 1..Len(data) |->
        CASE what = "comments" -> CommentEntry(data[j])
          [] what = "issue_comments" -> IssueCommentEntry(data[j])
          [] what = "reviews" -> ReviewEntry(data[j])
          [] OTHER -> FileEntry(data[j])]

\* Whether a secondary try block raises: the request fails, or the loop over
\* the answer calls .get on a null user.
BlockRaises(what, outcome, data) ==
    \/ Raises(outcome)
    \/ \E j \in 1..Len(data) : HasRaised(Entries(what, data)[j])

\* The list a secondary try block leaves under its key: the except clause
\* stores the empty list.
FetchedList(what, outcome, data) ==
    IF BlockRaises(what, outcome, data) THEN <<>> ELSE Entries(what, data)

-----------------------------------------------------------------------------
(* get_comprehensive_summary_from_groq *)

\* The text of a literal, given character by character.
RECURSIVE Lit(_)
Lit(chars) == IF chars = <<>> THEN Empty ELSE Cat(Rep(Head(chars), 1), Lit(Tail(chars)))

\* The concatenation of the parts of an f-string.
RECURSIVE Concat(_)
Concat(parts) == IF parts = <<>> THEN Empty ELSE Cat(Head(parts), Concat(Tail(parts)))

Digit(d) == Rep(<<"0", "1", "2", "3", "4", "5", "6", "7", "8", "9">>[d + 1], 1)

\* str(n) of a natural number.
RECURSIVE DecStr(_)
DecStr(n) == IF n < 10 THEN Digit(n) ELSE Cat(DecStr(n \div 10), Digit(n % 10))

\* 'No description provided'
NoDescription ==
    Lit(<<"N", "o", SP, "d", "e", "s", "c", "r", "i", "p", "t", "i", "o", "n", SP,
          "p", "r", "o", "v", "i", "d", "e", "d">>)

\* Length the description is cut to in the local template.
TemplateExcerpt == 200

\* description[:n] if description else 'No description provided': None and
\* the empty string are both falsy.
DescriptionOr(description, n) ==
    IF IsNone(description) \/ description.v = Empty THEN NoDescription
    ELSE Prefix(description.v, n)

\* Line 493: the local template, rendered from pr_info['basic'] alone.
LocalTemplate(basic) ==
    Concat(<<Rep("*", 2), basic.title.v, Rep("*", 2), Rep(NL, 2),
             Lit(<<"A", "u", "t", "h", "o", "r", ":", SP>>), basic.user.v, Rep(NL, 1),
             Lit(<<"F", "i", "l", "e", "s", SP, "c", "h", "a", "n", "g", "e", "d", ":", SP>>),
             DecStr(basic.changed_files.v), Rep(NL, 1),
             Lit(<<"C", "h", "a", "n", "g", "e", "s", ":", SP, "+">>),
             DecStr(basic.additions.v),
             Lit(<<SP, "-">>), DecStr(basic.deletions.v), Rep(NL, 2),
             Lit(<<"D", "e", "s", "c", "r", "i", "p", "t", "i", "o", "n", ":", SP>>),
             DescriptionOr(basic.description, TemplateExcerpt)>>)

\* Number of inline comments and of issue comments the prompt reads.
PromptComments == 6
PromptIssueComments == 3

Min(a, b) == IF a < b THEN a ELSE b

\* Lines 361-374: the prompt is built outside any try block; len() of a body
\* that is None raises TypeError (lines 364 and 372).
PromptRaises(info) ==
    \/ \E j \in 1..Min(PromptComments, Len(info["comments"])) :
          IsNone(info["comments"][j].body)
    \/ \E j \in 1..Min(PromptIssueComments, Len(info["issue_comments"])) :
          IsNone(info["issue_comments"][j].body)

\* What a chat completion request can end in: a completion, or any exception
\* of the client (API error, timeout, connection error).
GenerationOutcomes == {"ok", "error"}

\* The texts the generation service answers with: one that fits one chunk and
\* one that is split in two.
GeneratedTexts == {Rep("s", 1000), JoinBlank(<<Rep("a", 1000), Rep("b", 1000)>>)}

-----------------------------------------------------------------------------
(* github_webhook and process_pr_event *)

\* Lines 514.
SkipActions ==
    {"assigned", "unassigned", "labeled", "unlabeled", "review_requested",
     "review_request_removed"}

\* The actions of the pull_request events drawn.
PayloadActions == SkipActions \cup EventActions

\* The shapes of the payload: every field filled, or one of the three required
\* fields absent, or a repository that is null.
PayloadShapes == {"full", "no_owner", "no_repo", "no_number", "null_repository"}

PayloadOf(action, shape) ==
    LET repository == [name |-> Str(Rep("r", 1)), owner |-> Login(Rep("o", 1))]
        full == [action |-> Str(action),
                 pull_request |-> Obj([number |-> Num(7)]),
                 repository |-> Obj(repository)]
    IN  CASE shape = "no_owner" ->
               [full EXCEPT !.repository = Obj(Without(repository, "owner"))]
          [] shape = "no_repo" ->
               [full EXCEPT !.repository = Obj(Without(repository, "name"))]
          [] shape = "no_number" -> [full EXCEPT !.pull_request = Obj(EmptyDict)]
          [] shape = "null_repository" -> [full EXCEPT !.repository = None]
          [] OTHER -> full

\* The requests drawn.  secret tells whether WEBHOOK_SECRET is configured,
\* signature how the X-Hub-Signature-256 header compares with the digest of
\* the body, body what get_json() makes of the body.
Requests ==
    {[secret |-> sec, signature |-> sig, body |-> "object", event_type |-> ev,
      payload |-> PayloadOf(a, sh)] :
        sec \in BOOLEAN, sig \in {"valid", "invalid", "missing"},
        ev \in {"pull_request", "push"}, a \in PayloadActions, sh \in PayloadShapes}
    \cup
    {[secret |-> sec, signature |-> sig, body |-> b, event_type |-> ev,
      payload |-> EmptyDict] :
        sec \in BOOLEAN, sig \in {"valid", "invalid", "missing"},
        ev \in {"pull_request", "push"}, b \in {"invalid_json", "empty"}}

\* verify_github_signature letting a request without the header pass.
verify_github_signature_lenient(req) ==
    IF ~req.secret THEN TRUE
    ELSE IF req.signature = "missing" THEN TRUE
    ELSE req.signature = "valid"

\* Lines 38-63.
verify_github_signature(req) ==
    IF ~req.secret THEN TRUE
    ELSE IF req.signature = "missing" THEN FALSE
    ELSE req.signature = "valid"

\* The value of a Python expression used as a condition.
Truthy(x) ==
    CASE x.t = "null" -> FALSE
      [] x.t = "int" -> x.v # 0
      [] x.t = "str" -> x.v # Empty
      [] x.t = "bool" -> x.v
      [] OTHER -> TRUE

\* Lines 499-505: the three required fields, None where absent; Raised where a
\* .get is called on None.
Required(payload) ==
    LET repository == Get(payload, "repository", Obj(EmptyDict))
    IN  [owner |-> IF repository.t = "obj"
                   THEN GetIn(repository.v, "owner", "login", None) ELSE Raised,
         repo |-> IF repository.t = "obj"
                  THEN Get(repository.v, "name", None) ELSE Raised,
         pr_number |-> GetIn(payload, "pull_request", "number", None)]

\* The handler answers.
Responds(status, message) ==
    /\ ppc' = "responded"
    /\ response' = [status |-> status, message |-> message]

\* process_pr_event returns value and github_webhook answers on it (lines
\* 582-587).
ProcessReturns(value) ==
    /\ success' = value
    /\ IF value = "True"
       THEN Responds(200, "PR event processed successfully")
       ELSE Responds(500, "Failed to process PR event")

\* GithubWebhook without the test of the event type: every event is processed.
GithubWebhookAnyEvent(req) ==
    /\ ppc = "listening"
    /\ request' = req
    /\ IF req.secret /\ ~verify_github_signature(req)
       THEN Responds(401, "Invalid signature")
       ELSE IF req.body = "invalid_json"
       THEN Responds(400, "Invalid JSON payload")
       ELSE IF req.body = "empty"
       THEN Responds(400, "Empty payload")
       ELSE ppc' = "process" /\ response' = response
    /\ UNCHANGED <<pager, upstream, context, runs, embed, pc, summary, reviews, event_action, summary_chunks, i, posts,
                   result, pr_info, calls, generated, success>>

\* Lines 552-582: the gates of the handler.
GithubWebhook(req) ==
    /\ ppc = "listening"
    /\ request' = req
    /\ IF req.secret /\ ~verify_github_signature(req)
       THEN Responds(401, "Invalid signature")
       ELSE IF req.body = "invalid_json"
       THEN Responds(400, "Invalid JSON payload")
       ELSE IF req.body = "empty"
       THEN Responds(400, "Empty payload")
       ELSE IF req.event_type # "pull_request"
       THEN Responds(200, "Event type ignored")
       ELSE ppc' = "process" /\ response' = response
    /\ UNCHANGED <<pager, upstream, context, runs, embed, pc, summary, reviews, event_action, summary_chunks, i, posts,
                   result, pr_info, calls, generated, success>>

\* ProcessPrEvent with the skip test ahead of the test of the required fields.
ProcessPrEventSkipFirst ==
    /\ ppc = "process"
    /\ LET required == Required(request.payload)
           action == Get(request.payload, "action", None)
       IN  IF action.t = "str" /\ action.v \in SkipActions
           THEN ProcessReturns("True")
           ELSE IF HasRaised(required) THEN ProcessReturns("False")
           ELSE IF ~(Truthy(required.owner) /\ Truthy(required.repo)
                     /\ Truthy(required.pr_number))
           THEN ProcessReturns("False")
           ELSE ppc' = "core" /\ UNCHANGED <<success, response>>
    /\ UNCHANGED <<pager, upstream, context, runs, embed, pc, summary, reviews, event_action, summary_chunks, i, posts,
                   result, request, pr_info, calls, generated>>

\* Lines 498-517: the payload is read; a run with a required field missing
\* fails, a run for a skipped action succeeds, any other run goes on to
\* collect.
ProcessPrEvent ==
    /\ ppc = "process"
    /\ LET required == Required(request.payload)
           action == Get(request.payload, "action", None)
       IN  IF HasRaised(required) THEN ProcessReturns("False")
           ELSE IF ~(Truthy(required.owner) /\ Truthy(required.repo)
                     /\ Truthy(required.pr_number))
           THEN ProcessReturns("False")
           ELSE IF action.t = "str" /\ action.v \in SkipActions
           THEN ProcessReturns("True")
           ELSE ppc' = "core" /\ UNCHANGED <<success, response>>
    /\ UNCHANGED <<pager, upstream, context, runs, embed, pc, summary, reviews, event_action, summary_chunks, i, posts,
                   result, request, pr_info, calls, generated>>

\* A call made to GitHub or to the generation service: whether the request
\* itself failed (non-2xx status, transport error, exception of the client),
\* and whether the code around it caught an exception.
Called(to, what, failed, raised) ==
    Append(calls, [to |-> to, what |-> what, failed |-> failed, raised |-> raised])

\* FetchCore with the core fetch in a try block like the secondary ones: a
\* failure leaves the defaults in the basic part and the collector goes on.
FetchCoreTolerant(outcome, shape) ==
    /\ ppc = "core"
    /\ LET basic == Basic(PullData(shape))
           raised == Raises(outcome) \/ HasRaised(basic)
       IN  /\ calls' = Called("github", "pull", Raises(outcome), raised)
           /\ pr_info' = Put(EmptyDict, "basic",
                             IF raised THEN Basic(EmptyDict) ELSE basic)
           /\ ppc' = SecondaryOrder[1]
    /\ upstream' = IF Raises(outcome) THEN upstream ELSE PullData(shape)
    /\ UNCHANGED <<pager, context, runs, embed, pc, summary, reviews, event_action, summary_chunks, i, posts,
                   result, request, generated, success, response>>

\* Lines 78-97 and 182-187: the core fetch.  An exception is raised again by
\* the collector and caught by process_pr_event (line 536).
FetchCore(outcome, shape) ==
    /\ ppc = "core"
    /\ LET basic == Basic(PullData(shape))
           raised == Raises(outcome) \/ HasRaised(basic)
       IN  /\ calls' = Called("github", "pull", Raises(outcome), raised)
           /\ IF raised
              THEN ProcessReturns("False") /\ pr_info' = pr_info
              ELSE /\ pr_info' = Put(EmptyDict, "basic", basic)
                   /\ ppc' = SecondaryOrder[1]
                   /\ UNCHANGED <<success, response>>
    /\ upstream' = IF Raises(outcome) THEN upstream ELSE PullData(shape)
    /\ UNCHANGED <<pager, context, runs, embed, pc, summary, reviews, event_action, summary_chunks, i, posts,
                   result, request, generated>>

\* Where the collector goes after the fetch of one list.
AfterFetch(what) ==
    LET idx == CHOOSE j \in 1..Len(SecondaryOrder) : SecondaryOrder[j] = what
    IN  IF idx < Len(SecondaryOrder) THEN SecondaryOrder[idx + 1] ELSE "prompt"

\* Lines 99-178: one of the four secondary fetches, each in a try block of its
\* own.
FetchSecondary(what, outcome, k, shape) ==
    /\ ppc = what
    /\ LET data == ListData(what, k, shape)
       IN  /\ calls' = Called("github", what, Raises(outcome),
                           BlockRaises(what, outcome, data))
           /\ pr_info' = Put(pr_info, what, FetchedList(what, outcome, data))
    /\ ppc' = AfterFetch(what)
    /\ UNCHANGED <<pager, upstream, context, runs, embed, pc, summary, reviews, event_action, summary_chunks, i, posts,
                   result, request, generated, success, response>>

\* BuildPrompt with its exception caught by nobody: the handler is left
\* without an answer.
BuildPromptUncaught ==
    /\ ppc = "prompt"
    /\ pr_info' = [pr_info EXCEPT !["basic"] =
                      Put(@, "number",
                          GetIn(request.payload, "pull_request", "number", None))]
    /\ ppc' = IF PromptRaises(pr_info) THEN "escaped" ELSE "primary"
    /\ UNCHANGED <<pager, upstream, context, runs, embed, pc, summary, reviews, event_action, summary_chunks, i, posts,
                   result, request, calls, generated, success, response>>

\* Lines 521 and 338-455: the PR number is stored and the prompt is built; an
\* exception here is caught by process_pr_event (line 536).
BuildPrompt ==
    /\ ppc = "prompt"
    /\ pr_info' = [pr_info EXCEPT !["basic"] =
                      Put(@, "number",
                          GetIn(request.payload, "pull_request", "number", None))]
    /\ IF PromptRaises(pr_info)
       THEN ProcessReturns("False")
       ELSE ppc' = "primary" /\ UNCHANGED <<success, response>>
    /\ UNCHANGED <<pager, upstream, context, runs, embed, pc, summary, reviews, event_action, summary_chunks, i, posts,
                   result, request, calls, generated>>

\* PrimaryCall issuing the primary request a second time when the first one
\* raised, before it falls back.
PrimaryCallRetrying(outcome, text) ==
    /\ ppc = "primary"
    /\ calls' = Called("groq", "primary", outcome # "ok", outcome # "ok")
    /\ IF outcome = "ok"
       THEN generated' = text /\ ppc' = "deliver"
       ELSE /\ generated' = generated
            /\ ppc' = IF \E j \in 1..Len(calls) : calls[j].what = "primary"
                      THEN "fallback" ELSE "primary"
    /\ UNCHANGED <<pager, upstream, context, runs, embed, pc, summary, reviews, event_action, summary_chunks, i, posts,
                   result, request, pr_info, success, response>>

\* Lines 457-467: the primary generation request.
PrimaryCall(outcome, text) ==
    /\ ppc = "primary"
    /\ calls' = Called("groq", "primary", outcome # "ok", outcome # "ok")
    /\ IF outcome = "ok"
       THEN generated' = text /\ ppc' = "deliver"
       ELSE generated' = generated /\ ppc' = "fallback"
    /\ UNCHANGED <<pager, upstream, context, runs, embed, pc, summary, reviews, event_action, summary_chunks, i, posts,
                   result, request, pr_info, success, response>>

\* FallbackCall raising the exception of the fallback request again instead of
\* rendering the local template.
FallbackCallRaising(outcome, text) ==
    /\ ppc = "fallback"
    /\ calls' = Called("groq", "fallback", outcome # "ok", outcome # "ok")
    /\ IF outcome = "ok"
       THEN generated' = text /\ ppc' = "deliver" /\ UNCHANGED <<success, response>>
       ELSE generated' = generated /\ ProcessReturns("False")
    /\ UNCHANGED <<pager, upstream, context, runs, embed, pc, summary, reviews, event_action, summary_chunks, i, posts,
                   result, request, pr_info>>

\* Lines 468-493: the fallback generation request, and the local template
\* when it raises too.
FallbackCall(outcome, text) ==
    /\ ppc = "fallback"
    /\ calls' = Called("groq", "fallback", outcome # "ok", outcome # "ok")
    /\ generated' = IF outcome = "ok" THEN text ELSE LocalTemplate(pr_info["basic"])
    /\ ppc' = "deliver"
    /\ UNCHANGED <<pager, upstream, context, runs, embed, pc, summary, reviews, event_action, summary_chunks, i, posts,
                   result, request, pr_info, success, response>>

\* Line 527: send_to_discord is called with the record, the summary and the
\* action of the payload.
Deliver ==
    /\ ppc = "deliver"
    /\ SendToDiscord(generated, Len(pr_info["reviews"]), request.payload.action.v)

\* Lines 529-534 and 584-587: send_to_discord has returned.
Delivered ==
    /\ ppc = "deliver"
    /\ pc = "done"
    /\ ProcessReturns(result)
    /\ UNCHANGED <<pager, upstream, context, runs, embed, pc, summary, reviews, event_action, summary_chunks, i, posts,
                   result, request, pr_info, calls, generated>>

PipeNext ==
    \/ \E req \in Requests : GithubWebhook(req)
    \/ ProcessPrEvent
    \/ \E o \in FetchOutcomes, sh \in CoreShapes : FetchCore(o, sh)
    \/ \E w \in {"comments", "issue_comments", "reviews", "files"},
          o \in FetchOutcomes, k \in 0..MaxReviews, sh \in ListShapes :
          FetchSecondary(w, o, k, sh)
    \/ BuildPrompt
    \/ \E o \in GenerationOutcomes, t \in GeneratedTexts : PrimaryCall(o, t)
    \/ \E o \in GenerationOutcomes, t \in GeneratedTexts : FallbackCall(o, t)
    \/ Deliver
    \/ \E o \in PostOutcomes : PostOverview(o)
    \/ \E o \in PostOutcomes : PostChunk(o)
    \/ \E o \in PostOutcomes : PostKeyReviews(o)
    \/ Delivered

\* One webhook request, from its arrival to the response.
PipeSpec == Init /\ [][PipeNext]_vars

-----------------------------------------------------------------------------
(* format_for_discord *)

\* The colours of color_map.
Green == 65280
Blue == 39423
Orange == 16753920
Purple == 7291585
SpringGreen == 65407

\* Lines 194-200.
color_map ==
    [opened |-> Green, synchronize |-> Blue, reopened |-> Orange,
     closed |-> Purple, ready_for_review |-> SpringGreen]

\* Lines 202-208: the glyph of each action; the one of closed depends on
\* pr_info['basic'].get('merged').
action_emoji(basic) ==
    [opened |-> "NEW", synchronize |-> "ARROWS", reopened |-> "ARROWS",
     closed |-> IF Truthy(Get(basic, "merged", None)) THEN "CHECK_MARK" ELSE "CROSS_MARK",
     ready_for_review |-> "EYES"]

\* The event_action of a call that passes none.
NoAction == "None"

\* Length the title is cut to in the overview message.
TitleCap == 100

\* format_for_discord with a default colour that does not look at the state.
format_for_discord_green(info, action) ==
    LET basic == info["basic"]
        title == basic.title.v
    IN  [color |-> IF action \in DOMAIN color_map THEN color_map[action] ELSE Green,
         emoji |-> IF action \in DOMAIN action_emoji(basic)
                   THEN action_emoji(basic)[action] ELSE "MAGNIFIER",
         title |-> Cat(Prefix(title, TitleCap),
                       IF StrLen(title) > TitleCap THEN Rep(".", 3) ELSE Empty),
         reviews |-> Len(Get(info, "reviews", <<>>)),
         comments |-> Len(Get(info, "comments", <<>>))
                      + Len(Get(info, "issue_comments", <<>>))]

\* Lines 211-232: the colour, the glyph, the title excerpt and the activity
\* counts of the overview embed.
format_for_discord(info, action) ==
    LET basic == info["basic"]
        title == basic.title.v
    IN  [color |-> IF action \in DOMAIN color_map THEN color_map[action]
                   ELSE IF basic.state.v = "open" THEN Green ELSE Purple,
         emoji |-> IF action \in DOMAIN action_emoji(basic)
                   THEN action_emoji(basic)[action] ELSE "MAGNIFIER",
         title |-> Cat(Prefix(title, TitleCap),
                       IF StrLen(title) > TitleCap THEN Rep(".", 3) ELSE Empty),
         reviews |-> Len(Get(info, "reviews", <<>>)),
         comments |-> Len(Get(info, "comments", <<>>))
                      + Len(Get(info, "issue_comments", <<>>))]

\* The actions, PR states and titles the calls are drawn from.
FormatActions ==
    {"opened", "synchronize", "reopened", "closed", "ready_for_review", "edited",
     "converted_to_draft", NoAction}
FormatStates == {"open", "closed"}
FormatTitles == {Rep("t", 12), Rep("t", 100), Rep("t", 101)}

\* The pull request object GitHub answers with for a pull request of that
\* state and title, merged or not.
UpstreamOf(state, title, merged) ==
    [PullData("full") EXCEPT !.state = Str(state), !.title = Str(title),
                             !.merged = Bool(merged)]

\* The record the collector returns for that pull request object with k
\* reviews, with the number process_pr_event adds.
RecordOf(pr_data, k) ==
    LET fetched == [what \in {SecondaryOrder[j] : j \in 1..Len(SecondaryOrder)} |->
                       FetchedList(what, "ok", ListData(what, k, "full"))]
    IN  [basic |-> Put(Basic(pr_data), "number", Num(7)),
         comments |-> fetched["comments"],
         issue_comments |-> fetched["issue_comments"],
         reviews |-> fetched["reviews"],
         files |-> fetched["files"]]

\* Lines 190-234: one call of format_for_discord on the record of a pull
\* request.
FormatCall(pr_data, k, action) ==
    /\ pc = "idle"
    /\ pc' = "format"
    /\ upstream' = pr_data
    /\ pr_info' = RecordOf(pr_data, k)
    /\ event_action' = action
    /\ embed' = format_for_discord(RecordOf(pr_data, k), action)
    /\ UNCHANGED <<pager, context, summary, reviews, summary_chunks, i, posts, result, ppc, request,
                   calls, generated, success, response, runs>>

\* GitHub reports a pull request as merged only when it is closed.
FormatNext ==
    \E state \in FormatStates, title \in FormatTitles, merged \in BOOLEAN,
       k \in 0..MaxReviews, action \in FormatActions :
        /\ merged => state = "closed"
        /\ FormatCall(UpstreamOf(state, title, merged), k, action)

\* format_for_discord alone.
FormatSpec == Init /\ [][FormatNext]_vars

-----------------------------------------------------------------------------
(* Two concurrent runs of process_pr_event for the same PR *)

\* Every variable process_pr_event and the functions it calls write to is a
\* local one (pr_info, summary, summary_chunks, the loop index); the module
\* level holds only the configuration read at import (lines 22-28).  What the
\* two runs share is the outside: GitHub, the generation service and the
\* Discord webhook, which see the calls of both in the order they arrive.

\* The post of run r arrives at the webhook and ends in outcome.
RunPosted(r, kind, part, outcome) ==
    Append(posts, [run |-> r, kind |-> kind, part |-> part, outcome |-> outcome])

\* The call of run r arrives at GitHub or at the generation service.
RunCalled(r, to, what, failed) ==
    Append(calls, [run |-> r, to |-> to, what |-> what, failed |-> failed])

\* Lines 302 and 326 for run r: where its send_to_discord goes after the
\* chunk loop.
RunLoopExit(run) ==
    IF Len(run.reviews) > 0 THEN [pc |-> "reviews", result |-> "none"]
    ELSE [pc |-> "done", result |-> "True"]

\* Line 520: run r collects; a failed core fetch ends the run (line 536).
RunCollect(r, outcome, k) ==
    /\ runs[r].pc = "received"
    /\ calls' = RunCalled(r, "github", "pull", Raises(outcome))
    /\ runs' = [runs EXCEPT ![r] =
                  IF Raises(outcome)
                  THEN [@ EXCEPT !.pc = "done", !.result = "False"]
                  ELSE [@ EXCEPT !.pc = "summarize", !.reviews = FetchedReviews(k)]]
    /\ UNCHANGED <<pager, upstream, context, pc, summary, reviews, event_action, summary_chunks, i, posts,
                   result, ppc, request, pr_info, generated, success, response, embed>>

\* Line 524: run r summarizes, and line 527 enters send_to_discord, which
\* splits the summary (246-263).
RunSummarize(r, text) ==
    /\ runs[r].pc = "summarize"
    /\ calls' = RunCalled(r, "groq", "primary", FALSE)
    /\ runs' = [runs EXCEPT ![r] =
                  [@ EXCEPT !.pc = "overview", !.summary = text,
                            !.summary_chunks = SplitSummary(text), !.i = 0]]
    /\ UNCHANGED <<pager, upstream, context, pc, summary, reviews, event_action, summary_chunks, i, posts,
                   result, ppc, request, pr_info, generated, success, response, embed>>

\* The locals of a run whose send_to_discord has returned value.
RunEnded(run, value) == [run EXCEPT !.pc = "done", !.result = value]

\* The locals of a run whose chunk loop is over.
RunAfterLoop(run) ==
    [run EXCEPT !.pc = RunLoopExit(run).pc, !.result = RunLoopExit(run).result]

\* Lines 276-278 for run r.
RunPostOverview(r, outcome) ==
    /\ runs[r].pc = "overview"
    /\ posts' = RunPosted(r, "overview", 0, outcome)
    /\ runs' = [runs EXCEPT ![r] =
                  IF Raises(outcome) THEN RunEnded(runs[r], "False")
                  ELSE IF Len(runs[r].summary_chunks) > 0
                  THEN [runs[r] EXCEPT !.pc = "chunk"]
                  ELSE RunAfterLoop(runs[r])]
    /\ UNCHANGED <<pager, upstream, context, pc, summary, reviews, event_action, summary_chunks, i, calls,
                   result, ppc, request, pr_info, generated, success, response, embed>>

\* RunPostChunk with the loop index kept in one place for both runs, the
\* variable i, instead of a local of each.
RunPostChunkSharedIndex(r, outcome) ==
    /\ runs[r].pc = "chunk"
    /\ posts' = RunPosted(r, "chunk", i + 1, outcome)
    /\ i' = i + 1
    /\ runs' = [runs EXCEPT ![r] =
                  IF Raises(outcome) THEN RunEnded(runs[r], "False")
                  ELSE IF i + 1 < Len(runs[r].summary_chunks)
                  THEN [runs[r] EXCEPT !.i = i + 1]
                  ELSE RunAfterLoop([runs[r] EXCEPT !.i = i + 1])]
    /\ UNCHANGED <<pager, upstream, context, pc, summary, reviews, event_action, summary_chunks, calls,
                   result, ppc, request, pr_info, generated, success, response, embed>>

\* Lines 281-299 for run r: one pass of its chunk loop.
RunPostChunk(r, outcome) ==
    /\ runs[r].pc = "chunk"
    /\ runs[r].i < Len(runs[r].summary_chunks)
    /\ posts' = RunPosted(r, "chunk", runs[r].i + 1, outcome)
    /\ runs' = [runs EXCEPT ![r] =
                  IF Raises(outcome) THEN RunEnded(runs[r], "False")
                  ELSE IF runs[r].i + 1 < Len(runs[r].summary_chunks)
                  THEN [runs[r] EXCEPT !.i = runs[r].i + 1]
                  ELSE RunAfterLoop([runs[r] EXCEPT !.i = runs[r].i + 1])]
    /\ UNCHANGED <<pager, upstream, context, pc, summary, reviews, event_action, summary_chunks, i, calls,
                   result, ppc, request, pr_info, generated, success, response, embed>>

\* Lines 302-326 for run r.
RunPostKeyReviews(r, outcome) ==
    /\ runs[r].pc = "reviews"
    /\ posts' = RunPosted(r, "reviews", 0, outcome)
    /\ runs' = [runs EXCEPT ![r] =
                  RunEnded(runs[r], IF Raises(outcome) THEN "False" ELSE "True")]
    /\ UNCHANGED <<pager, upstream, context, pc, summary, reviews, event_action, summary_chunks, i, calls,
                   result, ppc, request, pr_info, generated, success, response, embed>>

\* The reviews answered to a run: none or one.
RunReviews == {0, 1}

ConcNext ==
    \E r \in Runs :
        \/ \E o \in FetchOutcomes, k \in RunReviews : RunCollect(r, o, k)
        \/ \E t \in GeneratedTexts : RunSummarize(r, t)
        \/ \E o \in PostOutcomes : RunPostOverview(r, o)
        \/ \E o \in PostOutcomes : RunPostChunk(r, o)
        \/ \E o \in PostOutcomes : RunPostKeyReviews(r, o)

\* Two events for the same PR, processed by two runs whose steps interleave.
ConcSpec == Init /\ [][ConcNext]_vars

-----------------------------------------------------------------------------
(* The context of the prompt (src/app.py lines 340-426) *)

\* A file name is a sequence of one-character strings, so that the substring
\* tests of the classification read its characters.

\* ch.lower(), for the capitals that occur in the file names.
LowerChar(c) ==
    CASE c = "D" -> "d"
      [] c = "G" -> "g"
      [] OTHER -> c

\* s.lower()
Lower(s) == [j \in 1..Len(s) |-> LowerChar(s[j])]

\* sub in s
Contains(sub, s) ==
    \E k \in 0..(Len(s) - Len(sub)) : SubSeq(s, k + 1, k + Len(sub)) = sub

\* any(p in s for p in patterns)
ContainsAny(patterns, s) == \E p \in patterns : Contains(p, s)

\* str(n) as characters.
RECURSIVE DecChars(_)
DecChars(n) ==
    LET d == <<"0", "1", "2", "3", "4", "5", "6", "7", "8", "9">>[(n % 10) + 1]
    IN  IF n < 10 THEN <<d>> ELSE Append(DecChars(n \div 10), d)

\* Line 414.
DependencyPatterns ==
    {<<"p", "a", "c", "k", "a", "g", "e", ".", "j", "s", "o", "n">>,
     <<"p", "a", "c", "k", "a", "g", "e", "-", "l", "o", "c", "k", ".", "j", "s", "o", "n">>,
     <<"r", "e", "q", "u", "i", "r", "e", "m", "e", "n", "t", "s", ".", "t", "x", "t">>,
     <<"c", "o", "m", "p", "o", "s", "e", "r", ".", "j", "s", "o", "n">>,
     <<"g", "e", "m", "f", "i", "l", "e">>,
     <<"g", "o", ".", "m", "o", "d">>,
     <<"c", "a", "r", "g", "o", ".", "t", "o", "m", "l">>,
     <<"p", "o", "e", "t", "r", "y", ".", "l", "o", "c", "k">>}

\* Line 416.
CriticalPatterns ==
    {<<"d", "o", "c", "k", "e", "r", "f", "i", "l", "e">>,
     <<".", "e", "n", "v">>,
     <<"c", "o", "n", "f", "i", "g", ".", "j", "s">>,
     <<"n", "e", "x", "t", ".", "c", "o", "n", "f", "i", "g">>,
     <<"v", "i", "t", "e", ".", "c", "o", "n", "f", "i", "g">>,
     <<"w", "e", "b", "p", "a", "c", "k", ".", "c", "o", "n", "f", "i", "g">>}

\* Line 418.
ConfigPatterns ==
    {<<".", "j", "s", "o", "n">>,
     <<".", "y", "m", "l">>,
     <<".", "y", "a", "m", "l">>,
     <<".", "t", "o", "m", "l">>,
     <<".", "c", "o", "n", "f", "i", "g">>}

\* The base names of the files of the inputs.
BaseNames ==
    << <<"p", "a", "c", "k", "a", "g", "e", ".", "j", "s", "o", "n">>,
      <<"r", "e", "q", "u", "i", "r", "e", "m", "e", "n", "t", "s", ".", "t", "x", "t">>,
      <<"D", "o", "c", "k", "e", "r", "f", "i", "l", "e">>,
      <<".", "e", "n", "v", ".", "y", "m", "l">>,
      <<"s", "e", "t", "t", "i", "n", "g", "s", ".", "y", "m", "l">>,
      <<"a", "p", "p", ".", "p", "y">>,
      <<"n", "e", "x", "t", ".", "c", "o", "n", "f", "i", "g", ".", "j", "s">>,
      <<"G", "e", "m", "f", "i", "l", "e", ".", "t", "o", "m", "l">> >>

\* Line 350: the scale named in the header of the context.
LargeOver == 20
MediumOver == 5
ChangeScale(changed_files) ==
    IF changed_files > LargeOver THEN "Large"
    ELSE IF changed_files > MediumOver THEN "Medium"
    ELSE "Small"

\* Lines 341 and 354-355: the description section, present when the
\* description holds more than whitespace.
DescriptionSection(basic) ==
    LET description == IF Truthy(basic.description) THEN basic.description.v ELSE Empty
    IN  IF Strip(description) # Empty THEN <<description>> ELSE <<>>

\* The length a body must exceed to be quoted (lines 364 and 372).
CommentFloor == 20
\* The lengths the quoted bodies are cut to (lines 365 and 373).
CommentCut == 250
DiscussionCut == 200

\* items[:n]
FirstOf(items, n) == SubSeq(items, 1, Min(n, Len(items)))

\* Lines 361-362 and 369-370: the heading of a comment section, with the
\* number of comments fetched, present when the list is not empty.
TotalHeading(items) == IF items # <<>> THEN <<Len(items)>> ELSE <<>>

\* Lines 363-366 without the test of line 364.
CommentLinesUnfiltered(comments) ==
    LET first == FirstOf(comments, PromptComments)
    IN  [j \in 1..Len(first) |->
            [user |-> first[j].user, path |-> first[j].path,
             body |-> Prefix(first[j].body.v, CommentCut)]]

\* Lines 363-366: the lines of the inline review comments.
CommentLines(comments) ==
    LET first == FirstOf(comments, PromptComments)
        kept == SelectSeq(first, LAMBDA c : StrLen(c.body.v) > CommentFloor)
    IN  [j \in 1..Len(kept) |->
            [user |-> kept[j].user, path |-> kept[j].path,
             body |-> Prefix(kept[j].body.v, CommentCut)]]

\* Lines 371-374 with the slice taken after the test of line 372.
DiscussionLinesFirstPassing(issue_comments) ==
    LET passing == SelectSeq(issue_comments, LAMBDA c : StrLen(c.body.v) > CommentFloor)
        kept == FirstOf(passing, PromptIssueComments)
    IN  [j \in 1..Len(kept) |->
            [user |-> kept[j].user,
             body |-> Prefix(kept[j].body.v, DiscussionCut)]]

\* Lines 371-374: the lines of the discussion comments.
DiscussionLines(issue_comments) ==
    LET first == FirstOf(issue_comments, PromptIssueComments)
        kept == SelectSeq(first, LAMBDA c : StrLen(c.body.v) > CommentFloor)
    IN  [j \in 1..Len(kept) |->
            [user |-> kept[j].user,
             body |-> Prefix(kept[j].body.v, DiscussionCut)]]

\* Length the body of a review is cut to in the prompt (line 381).
PromptReviewExcerpt == 150

\* Lines 379-382: one line for each review.
PromptReviewLines(fetched) ==
    [j \in 1..Len(fetched) |->
        [glyph |-> StatusEmoji(fetched[j].state.v),
         user |-> fetched[j].user,
         body |-> IF Truthy(fetched[j].body)
                  THEN Prefix(fetched[j].body.v, PromptReviewExcerpt)
                  ELSE NoComment]]

\* Line 390: sorted(files, key=changes, reverse=True); the sort is stable, so
\* files with equal changes keep the order they were fetched in.
RECURSIVE SortedFiles(_)
SortedFiles(files) ==
    IF files = <<>> THEN <<>>
    ELSE LET n == Len(files)
             f == files[n]
             rest == SortedFiles(SubSeq(files, 1, n - 1))
             before == SelectSeq(rest, LAMBDA g : g.changes.v >= f.changes.v)
             after == SelectSeq(rest, LAMBDA g : g.changes.v < f.changes.v)
         IN  before \o <<f>> \o after

\* Line 400: the glyph of a file status.
FileGlyph(status) ==
    CASE status = "added" -> "NEW_BUTTON"
      [] status = "modified" -> "PENCIL"
      [] status = "removed" -> "WASTEBASKET"
      [] status = "renamed" -> "MEMO"
      [] OTHER -> "PAGE_FACING_UP"

\* The number of files rendered one by one (lines 398 and 404).
PromptFiles == 8

\* The line of one file (line 401).
FileLine(f) ==
    [glyph |-> FileGlyph(f.status.v), filename |-> f.filename.v,
     additions |-> f.additions.v, deletions |-> f.deletions.v]

\* Lines 398-401 without the test of line 399.
FileLinesUnfiltered(files) ==
    LET top == FirstOf(SortedFiles(files), PromptFiles)
    IN  [j \in 1..Len(top) |-> FileLine(top[j])]

\* Lines 398-401: the files rendered, those of the first eight by changes
\* that have any change.
FileLines(files) ==
    LET top == FirstOf(SortedFiles(files), PromptFiles)
        shown == SelectSeq(top, LAMBDA f : f.changes.v > 0)
    IN  [j \in 1..Len(shown) |-> FileLine(shown[j])]

\* len([f for f in files if f.get('status') == status])
WithStatus(files, status) == Len(SelectSeq(files, LAMBDA f : f.status.v = status))

\* Lines 393-395 and 404-405: the rollup line; the three lists are taken from
\* sorted_files, that is from every file.
Rollup(files) ==
    IF Len(files) > PromptFiles
    THEN <<[more |-> Len(files) - PromptFiles,
            new |-> WithStatus(files, "added"),
            modified |-> WithStatus(files, "modified"),
            deleted |-> WithStatus(files, "removed")]>>
    ELSE <<>>

\* The names of the files, in the order they were fetched.
FileNames(files) == [j \in 1..Len(files) |-> files[j].filename.v]

\* A classification that tests the three pattern lists independently.
InBucketIndependent(filename, bucket) ==
    LET name == Lower(filename)
    IN  CASE bucket = "dependency" -> ContainsAny(DependencyPatterns, name)
          [] bucket = "critical" -> ContainsAny(CriticalPatterns, name)
          [] OTHER -> ContainsAny(ConfigPatterns, name)

\* Lines 412-419: the if / elif / elif chain puts a file in the first list
\* whose patterns its lower-cased name contains.
InBucket(filename, bucket) ==
    LET name == Lower(filename)
        dependency == ContainsAny(DependencyPatterns, name)
        critical == ~dependency /\ ContainsAny(CriticalPatterns, name)
        config == ~dependency /\ ~critical /\ ContainsAny(ConfigPatterns, name)
    IN  CASE bucket = "dependency" -> dependency
          [] bucket = "critical" -> critical
          [] OTHER -> config

\* dependency_files, critical_files and config_files after the loop.
BucketFiles(files, bucket) ==
    SelectSeq(FileNames(files), LAMBDA name : InBucket(name, bucket))

\* The number of names a dependency or critical line lists (lines 422, 424).
BucketCap == 3
\* The number of configuration files the count line needs more than (line 425).
ConfigOver == 3

\* Lines 421-424: the line of a bucket, naming its first three files.
BucketLine(files, bucket) ==
    LET names == BucketFiles(files, bucket)
    IN  IF names # <<>> THEN <<FirstOf(names, BucketCap)>> ELSE <<>>

\* Lines 425-426: the count of configuration files.
ConfigLine(files) ==
    LET names == BucketFiles(files, "config")
    IN  IF names # <<>> /\ Len(names) > ConfigOver THEN <<Len(names)>> ELSE <<>>

\* Lines 345-426: the context, section by section.  A section that the code
\* does not emit is the empty sequence.
Context(info) ==
    LET basic == info["basic"]
    IN  [title |-> basic.title,
         author |-> basic.user,
         head_branch |-> basic.head_branch,
         base_branch |-> basic.base_branch,
         changed_files |-> basic.changed_files,
         additions |-> basic.additions,
         deletions |-> basic.deletions,
         scale |-> ChangeScale(basic.changed_files.v),
         description |-> DescriptionSection(basic),
         comments_total |-> TotalHeading(info["comments"]),
         comments |-> CommentLines(info["comments"]),
         discussion_total |-> TotalHeading(info["issue_comments"]),
         discussion |-> DiscussionLines(info["issue_comments"]),
         reviews |-> PromptReviewLines(info["reviews"]),
         files |-> FileLines(info["files"]),
         rollup |-> Rollup(info["files"]),
         dependencies |-> BucketLine(info["files"], "dependency"),
         critical |-> BucketLine(info["files"], "critical"),
         configuration |-> ConfigLine(info["files"])]

\* The largest numbers of inline comments, discussion comments and files a
\* record of the inputs holds.
MaxComments == 7
MaxIssueComments == 4
MaxFiles == 10

\* The bodies of the comments of the inputs: all long, all of the length of
\* the floor, lengths around the floor and the cuts, or only the last one long.
CommentProfiles == {"long", "floor", "edge", "last"}

BodyLength(profile, j, n, cut) ==
    CASE profile = "long" -> cut + 50
      [] profile = "floor" -> CommentFloor
      [] profile = "edge" -> <<CommentFloor + 1, cut, cut + 1, CommentFloor>>[((j - 1) % 4) + 1]
      [] OTHER -> IF j = n THEN cut + 50 ELSE CommentFloor \div 2

\* The character the body of the j-th comment is made of.
Letters == <<"a", "b", "c", "d", "e", "f", "g", "h", "i", "j", "k", "l">>
LetterOf(j) == Letters[((j - 1) % Len(Letters)) + 1]

\* The j-th of n comments: its author and the character of its body are
\* named by its position.
CommentOf(profile, j, n) ==
    [user |-> Str(Rep("u", j)),
     body |-> Str(Rep(LetterOf(j), BodyLength(profile, j, n, CommentCut))),
     created_at |-> Str("2024-01-01T01:00:00Z"),
     path |-> Str("src/app.py"),
     line |-> Num(j)]

IssueCommentOf(profile, j, n) ==
    [user |-> Str(Rep("v", j)),
     body |-> Str(Rep(LetterOf(j), BodyLength(profile, j, n, DiscussionCut))),
     created_at |-> Str("2024-01-01T03:00:00Z")]

\* The files of the inputs: source files with growing changes, a mix of
\* every kind of name and status (a renamed file has no change), configuration
\* files with equal changes, dependency manifests.
FileProfiles == {"code", "mixed", "config", "deps"}

FileStatuses == <<"added", "modified", "removed", "renamed">>

FileOf(profile, j) ==
    LET base == CASE profile = "code" -> BaseNames[6]
                  [] profile = "mixed" -> BaseNames[((j - 1) % Len(BaseNames)) + 1]
                  [] profile = "config" -> BaseNames[5]
                  [] OTHER -> BaseNames[1]
        status == CASE profile = "mixed" -> FileStatuses[((j - 1) % 4) + 1]
                    [] profile = "deps" -> "added"
                    [] OTHER -> "modified"
        additions == CASE profile = "code" -> j
                       [] profile = "mixed" -> IF status = "renamed" THEN 0 ELSE ((j * 3) % 7) + 1
                       [] profile = "config" -> 2
                       [] OTHER -> 5
        deletions == IF profile = "mixed" /\ status = "removed" THEN 4 ELSE 0
    IN  [filename |-> Str(<<"d">> \o DecChars(j) \o <<"/">> \o base),
         status |-> Str(status),
         additions |-> Num(additions),
         deletions |-> Num(deletions),
         changes |-> Num(additions + deletions)]

\* The record of a pull request with the given lists of comments and files.
PromptRecord(cp, nc, ip, ni, fp, nf) ==
    [basic |-> Put(Basic(PullData("full")), "number", Num(7)),
     comments |-> [j \in 1..nc |-> CommentOf(cp, j, nc)],
     issue_comments |-> [j \in 1..ni |-> IssueCommentOf(ip, j, ni)],
     reviews |-> FetchedList("reviews", "ok", ReviewsData(2, "full")),
     files |-> [j \in 1..nf |-> FileOf(fp, j)]]

\* Lines 340-426: get_comprehensive_summary_from_groq builds the context.
PromptCall(info) ==
    /\ pc = "idle"
    /\ pc' = "context"
    /\ pr_info' = info
    /\ context' = Context(info)
    /\ UNCHANGED <<summary, reviews, event_action, summary_chunks, i, posts, result,
                   ppc, request, calls, generated, success, response, embed, runs,
                   upstream, pager>>

PromptNext ==
    \E profile \in CommentProfiles, nc \in 0..MaxComments, ni \in 0..MaxIssueComments,
       fp \in FileProfiles, nf \in 0..MaxFiles :
        PromptCall(PromptRecord(profile, nc, profile, ni, fp, nf))

\* The context of the prompt alone.
PromptSpec == Init /\ [][PromptNext]_vars

-----------------------------------------------------------------------------
(* GitHubPRAnalyzer.get_pr_files (src/pr_changes_summary.py lines 23-44) *)

\* The number of pages that hold files, and the number of files the model
\* puts on a page (the code asks for up to 100).
MaxPages == 4
MaxPageFiles == 3

\* What a page request can end in: 200 with files, 200 with an empty list,
\* another status, an exception of requests.get, an exception of
\* response.json().
PageOutcomes == {"files", "empty", "status", "transport", "invalid_json"}

\* The n files of a page, each named by its page and its place on it.
PageFiles(p, n) == [j \in 1..n |-> <<p, j>>]

\* Lines 27-28: the call starts with an empty list and page 1.
GetPrFiles ==
    /\ analyzer = "idle"
    /\ analyzer' = "running"
    /\ page' = 1
    /\ all_files' = <<>>
    /\ UNCHANGED <<requested, returned>>
    /\ UNCHANGED <<pc, summary, reviews, event_action, summary_chunks, i, posts, result,
                   ppc, request, pr_info, calls, generated, success, response, embed,
                   upstream, context, runs>>

\* RequestPage with the increment of line 42 left out.
RequestPageSamePage(outcome, n) ==
    /\ analyzer = "running"
    /\ outcome = "files" => Len(requested) < MaxPages
    /\ requested' = Append(requested,
                           [page |-> page, outcome |-> outcome,
                            files |-> IF outcome = "files" THEN n ELSE 0])
    /\ CASE outcome = "files" ->
              /\ all_files' = all_files \o PageFiles(page, n)
              /\ UNCHANGED <<analyzer, returned, page>>
         [] outcome = "empty" ->
              /\ analyzer' = "returned"
              /\ returned' = <<all_files>>
              /\ UNCHANGED <<page, all_files>>
         [] OTHER ->
              /\ analyzer' = "raised"
              /\ UNCHANGED <<page, all_files, returned>>
    /\ UNCHANGED <<pc, summary, reviews, event_action, summary_chunks, i, posts, result,
                   ppc, request, pr_info, calls, generated, success, response, embed,
                   upstream, context, runs>>

\* Lines 30-42: one iteration of the loop.  The page is requested; a status
\* other than 200 raises (lines 34-35), as do requests.get and response.json()
\* themselves; an empty answer ends the loop and the list is returned (lines
\* 38-39 and 44); otherwise the files are appended and the next page is due.
\* A pull request has finitely many files: pages after MaxPages hold none.
RequestPage(outcome, n) ==
    /\ analyzer = "running"
    /\ outcome = "files" => page <= MaxPages
    /\ requested' = Append(requested,
                           [page |-> page, outcome |-> outcome,
                            files |-> IF outcome = "files" THEN n ELSE 0])
    /\ CASE outcome = "files" ->
              /\ all_files' = all_files \o PageFiles(page, n)
              /\ page' = page + 1
              /\ UNCHANGED <<analyzer, returned>>
         [] outcome = "empty" ->
              /\ analyzer' = "returned"
              /\ returned' = <<all_files>>
              /\ UNCHANGED <<page, all_files>>
         [] OTHER ->
              /\ analyzer' = "raised"
              /\ UNCHANGED <<page, all_files, returned>>
    /\ UNCHANGED <<pc, summary, reviews, event_action, summary_chunks, i, posts, result,
                   ppc, request, pr_info, calls, generated, success, response, embed,
                   upstream, context, runs>>

\* A page request is answered.
PageAnswered == \E o \in PageOutcomes, n \in 1..MaxPageFiles : RequestPage(o, n)

PagesNext ==
    \/ GetPrFiles
    \/ PageAnswered

\* get_pr_files alone.
PagesSpec == Init /\ [][PagesNext]_vars

\* get_pr_files when every request it makes is answered: requests.get
\* blocks until the answer or an exception.
PagesFairSpec == PagesSpec /\ WF_vars(GetPrFiles) /\ WF_vars(PageAnswered)

-----------------------------------------------------------------------------
(* Vocabulary of the properties *)

\* The chunk posts made so far, in order.
ChunkPosts == SelectSeq(posts, LAMBDA m : m.kind = "chunk")

\* The overview post and all N chunk posts were made and none raised.
MandatoryDelivered ==
    /\ Len(posts) >= 1 + Len(summary_chunks)
    /\ posts[1].kind = "overview"
    /\ \A j \in 1..(1 + Len(summary_chunks)) : ~Raises(posts[j].outcome)
    /\ \A j \in 1..Len(summary_chunks) :
          /\ posts[j + 1].kind = "chunk"
          /\ posts[j + 1].part = j
          /\ posts[j + 1].description = summary_chunks[j]

\* The text with its whitespace characters removed.
RECURSIVE NonWhitespace(_)
NonWhitespace(s) ==
    IF s = <<>> THEN <<>>
    ELSE IF s[1][1] \in Whitespace THEN NonWhitespace(Tail(s))
    ELSE Cat(<<s[1]>>, NonWhitespace(Tail(s)))

\* Every blank-line-delimited section of s is non-empty and has no
\* whitespace at either end.
CleanSections(s) ==
    LET sections == SplitBlank(s) IN
    \A j \in 1..Len(sections) : sections[j] # Empty /\ Strip(sections[j]) = sections[j]

\* The sections read back from the chunks, chunk after chunk.
RECURSIVE Resplit(_)
Resplit(chunks) ==
    IF chunks = <<>> THEN <<>>
    ELSE SplitBlank(chunks[1]) \o Resplit(Tail(chunks))

\* A list of sections with each one stripped and the empty ones left out.
Stripped(sections) ==
    SelectSeq([j \in 1..Len(sections) |-> Strip(sections[j])], LAMBDA x : x # Empty)

-----------------------------------------------------------------------------
(* C1 *)

\* C1 as stated: a failed chunk post does not stop the call; whenever the
\* overview was delivered, all N chunk posts are attempted.
C1_AllChunksAttempted ==
    (pc = "done" /\ Len(posts) >= 1 /\ ~Raises(posts[1].outcome))
        => Len(ChunkPosts) = Len(summary_chunks)

\* C1 amended: chunks are posted in index order, and a failed post is the
\* last post of the call: no later post is attempted and the call returns
\* false.
C1_FailedPostEndsCall ==
    /\ \A j \in 1..Len(ChunkPosts) : ChunkPosts[j].part = j
    /\ \A j \in 1..Len(posts) :
          Raises(posts[j].outcome)
              => j = Len(posts) /\ pc = "done" /\ result = "False"

C1_Witness ==
    /\ pc = "done"
    /\ Len(summary_chunks) >= 2
    /\ Len(posts) = 2
    /\ posts[2].kind = "chunk"
    /\ Raises(posts[2].outcome)

(* C2 *)

\* C2 as stated: when the overview and every chunk were delivered and the
\* key-reviews post fails, send_to_discord returns true.
C2_KeyReviewsFailureIgnored ==
    (pc = "done" /\ MandatoryDelivered
     /\ posts[Len(posts)].kind = "reviews" /\ Raises(posts[Len(posts)].outcome))
        => result = "True"

\* C2 amended: in that case send_to_discord returns false.
C2_KeyReviewsFailureFails ==
    (pc = "done" /\ MandatoryDelivered
     /\ posts[Len(posts)].kind = "reviews" /\ Raises(posts[Len(posts)].outcome))
        => result = "False"

C2_Witness ==
    /\ pc = "done"
    /\ MandatoryDelivered
    /\ Len(summary_chunks) >= 1
    /\ posts[Len(posts)].kind = "reviews"
    /\ Raises(posts[Len(posts)].outcome)

(* C3 *)

\* C3: a true return means the overview and each of the N chunks was posted
\* and none of those posts failed; a failed overview or chunk post means a
\* false return.
C3_TrueOnlyIfMandatoryDelivered ==
    /\ result = "True" => MandatoryDelivered
    /\ \A j \in 1..Len(posts) :
          (posts[j].kind \in {"overview", "chunk"} /\ Raises(posts[j].outcome))
              => result = "False"

C3_Witness ==
    /\ result = "True"
    /\ Len(summary_chunks) >= 2
    /\ Len(ChunkPosts) = Len(summary_chunks)

(* C4 *)

\* C4: the posts of a call are the overview, then chunks 1, 2, ... in index
\* order, then at most one key-reviews post after the last chunk; no message
\* is posted twice.
C4_PostOrder ==
    \A j \in 1..Len(posts) :
       /\ posts[j].kind = "overview" <=> j = 1
       /\ posts[j].kind = "chunk"
             => posts[j].part = j - 1 /\ posts[j].part <= Len(summary_chunks)
       /\ posts[j].kind = "reviews"
             => j = Len(summary_chunks) + 2 /\ j = Len(posts)

C4_Witness ==
    /\ Len(summary_chunks) >= 2
    /\ Len(posts) = Len(summary_chunks) + 2
    /\ posts[Len(posts)].kind = "reviews"

(* C5 *)

\* C5 as stated, for the summaries that hold text (some non-whitespace
\* character): joining the chunks with blank lines gives the summary back.
C5_JoinReproducesSummary ==
    (pc = "split" /\ NonWhitespace(summary) # Empty)
        => JoinBlank(summary_chunks) = summary

\* C5 amended: the join gives the summary back when the summary has at most
\* 1900 characters, and when its sections are non-empty and have no
\* whitespace at their ends; in every case it gives back the summary's
\* non-whitespace characters, all of them and in order.
C5_LosslessUpToStrip ==
    pc = "split" =>
       /\ StrLen(summary) <= 1900 => JoinBlank(summary_chunks) = summary
       /\ CleanSections(summary) => JoinBlank(summary_chunks) = summary
       /\ NonWhitespace(JoinBlank(summary_chunks)) = NonWhitespace(summary)

C5_Witness ==
    /\ pc = "split"
    /\ StrLen(summary) > 1900
    /\ Len(summary_chunks) >= 2
    /\ JoinBlank(summary_chunks) # summary
    /\ NonWhitespace(summary) # Empty

(* C6 *)

\* C6 as stated: a chunk is longer than 1900 characters only when it is one
\* single section that is itself longer than 1900; so when no section is
\* longer than 1900, no chunk is.
C6_ChunksWithinLimit ==
    pc = "split" =>
       LET sections == SplitBlank(summary) IN
       \A c \in 1..Len(summary_chunks) :
          StrLen(summary_chunks[c]) > 1900
             => \E j \in 1..Len(sections) :
                   /\ StrLen(sections[j]) > 1900
                   /\ summary_chunks[c] = Strip(sections[j])

(* C7 *)

\* C7 as stated, for the summaries that hold text: for a summary longer
\* than 1900 characters the chunks hold the sections whole and in order:
\* reading the sections back from the chunks gives the summary's sections.
C7_SectionsWhole ==
    (pc = "split" /\ StrLen(summary) > 1900 /\ NonWhitespace(summary) # Empty)
        => Resplit(summary_chunks) = SplitBlank(summary)

\* C7 amended: no section is divided between two chunks or cut inside, and
\* the order is kept; only whitespace at the two ends of a chunk is removed
\* (and with it sections that are empty or whitespace only).  A section
\* longer than 1900 characters is a chunk of its own, stripped at its ends.
C7_SectionsKeptTogether ==
    (pc = "split" /\ StrLen(summary) > 1900) =>
       LET sections == SplitBlank(summary) IN
       /\ Stripped(Resplit(summary_chunks)) = Stripped(sections)
       /\ \A j \in 1..Len(sections) :
             StrLen(sections[j]) > 1900
                => \E c \in 1..Len(summary_chunks) :
                      summary_chunks[c] = Strip(sections[j])

C7_Witness ==
    /\ pc = "split"
    /\ StrLen(summary) > 1900
    /\ Len(summary_chunks) >= 2
    /\ Resplit(summary_chunks) # SplitBlank(summary)
    /\ \E c \in 1..Len(summary_chunks) : StrLen(summary_chunks[c]) > 1900

(* C8 *)

\* C8 as stated: every call has at least one summary chunk, so a call that
\* returns true has posted the overview and then a summary message.
C8_AtLeastOneChunk ==
    /\ pc # "idle" => Len(summary_chunks) >= 1
    /\ result = "True" => Len(posts) >= 2 /\ posts[2].kind = "chunk"

(* C9 *)

\* C9: a summary of at most 1900 characters is one chunk, the summary
\* itself; a chunk's title carries the numbering (Part i/N), with its own
\* index i and the chunk count N, exactly when there are several chunks.
C9_SingleChunkAndNumbering ==
    pc # "idle" =>
       /\ StrLen(summary) <= 1900 => summary_chunks = <<summary>>
       /\ \A j \in 1..Len(posts) :
             posts[j].kind = "chunk" =>
                /\ posts[j].title[1] = "Analysis Summary"
                /\ Len(summary_chunks) = 1 => Len(posts[j].title) = 1
                /\ Len(summary_chunks) > 1 =>
                      /\ Len(posts[j].title) = 4
                      /\ posts[j].title[2] = "Part"
                      /\ posts[j].title[3] = posts[j].part
                      /\ posts[j].title[4] = Len(summary_chunks)

C9_Witness ==
    /\ StrLen(summary) <= 1900
    /\ summary # Empty
    /\ Len(posts) = 2
    /\ posts[2].kind = "chunk"
    /\ posts[2].description = summary
    /\ Len(posts[2].title) = 1

(* C10 *)

\* C10: in a call whose overview and chunk posts all succeeded, a
\* key-reviews message is posted if and only if there are two reviews or
\* more; it is the last post and it renders the last two reviews fetched,
\* the earlier one first.
C10_KeyReviews ==
    (pc = "done" /\ MandatoryDelivered) =>
       /\ (\E j \in 1..Len(posts) : posts[j].kind = "reviews") <=> Len(reviews) > 1
       /\ \A j \in 1..Len(posts) :
             posts[j].kind = "reviews" =>
                /\ j = Len(posts)
                /\ posts[j].description =
                      Cat(ReviewLine(reviews[Len(reviews) - 1]),
                          ReviewLine(reviews[Len(reviews)]))

C10_Witness ==
    /\ pc = "done"
    /\ MandatoryDelivered
    /\ Len(reviews) >= 3
    /\ posts[Len(posts)].kind = "reviews"
    /\ result = "True"

-----------------------------------------------------------------------------
(* Vocabulary of the run *)

\* The calls made to GitHub so far, in order.
GithubCalls == SelectSeq(calls, LAMBDA c : c.to = "github")
\* The calls made to the generation service so far, in order.
GroqCalls == SelectSeq(calls, LAMBDA c : c.to = "groq")

Attempted(what) == \E j \in 1..Len(calls) : calls[j].what = what
CallOf(what) == calls[CHOOSE j \in 1..Len(calls) : calls[j].what = what]

\* The core fetch has succeeded: the record has its basic part.
CoreSucceeded == "basic" \in DOMAIN pr_info

\* The collector is past the fetch of SecondaryOrder[j].
PastFetch(j) == CoreSucceeded /\ ppc \notin {SecondaryOrder[m] : m \in 1..j}

\* The lists a fetch that did not fail can leave under the key.
SuccessfulLists(what) ==
    {Entries(what, ListData(what, k, sh)) :
        <<k, sh>> \in {x \in (0..MaxReviews) \X ListShapes :
                          ~BlockRaises(what, "ok", ListData(what, x[1], x[2]))}}

-----------------------------------------------------------------------------
(* C11 *)

\* C11: once the core fetch has succeeded, each of the four secondary fetches
\* is attempted whatever the earlier ones ended in; a fetch that failed
\* (non-2xx status or transport error) leaves the empty list under its own
\* key, a fetch that succeeded leaves the entries it fetched, and all four
\* keys are present when the collector returns.
C11_SecondaryFetchesIsolated ==
    \A j \in 1..Len(SecondaryOrder) :
        LET what == SecondaryOrder[j]
        IN  PastFetch(j) =>
               /\ Attempted(what)
               /\ what \in DOMAIN pr_info
               /\ CallOf(what).failed => pr_info[what] = <<>>
               /\ ~CallOf(what).failed =>
                     /\ pr_info[what] \in SuccessfulLists(what)
                     /\ what # "reviews" => pr_info[what] # <<>>

-----------------------------------------------------------------------------
(* C12 *)

\* C12: when the core metadata fetch fails (non-2xx status or transport
\* error) the run is over: the core fetch is the only call made, none of the
\* secondary fetches, no generation request and no webhook post follows, and
\* process_pr_event returns False.
C12_CoreFailureAborts ==
    (Attempted("pull") /\ CallOf("pull").failed) =>
        /\ Len(calls) = 1
        /\ posts = <<>>
        /\ pc = "idle"
        /\ success = "False"
        /\ ppc = "responded"

\* The core fetch has failed and the run has ended.
C12_Witness ==
    /\ Attempted("pull") /\ CallOf("pull").failed
    /\ success = "False"
    /\ response.status = 500

-----------------------------------------------------------------------------
(* C13 *)

\* No field of the dict is null.
NoNullField(d) == \A k \in DOMAIN d : ~IsNone(d[k])

\* C13: whatever GitHub answers, no field of the record built by the
\* collector is null: not in the basic part, not in any entry of any list.
C13_NoNullField ==
    CoreSucceeded =>
        /\ NoNullField(pr_info["basic"])
        /\ \A j \in 1..Len(SecondaryOrder) :
              LET what == SecondaryOrder[j]
              IN  what \in DOMAIN pr_info =>
                     \A n \in 1..Len(pr_info[what]) : NoNullField(pr_info[what][n])

-----------------------------------------------------------------------------
(* C14 *)

\* process_pr_event has returned.
Returned == success # "none"

\* The action of the payload is one of the six skipped ones.
SkipRequested ==
    LET action == Get(request.payload, "action", None)
    IN  action.t = "str" /\ action.v \in SkipActions

\* The payload carries an owner, a repository name and a PR number.
HasRequired ==
    LET required == Required(request.payload)
    IN  /\ ~HasRaised(required)
        /\ Truthy(required.owner) /\ Truthy(required.repo)
        /\ Truthy(required.pr_number)

\* No fetch, no generation request and no post has been made.
NoCollaboratorCalled == calls = <<>> /\ posts = <<>> /\ pc = "idle"

\* C14 as stated: a run for a payload with a skipped action returns True
\* without calling a collaborator.
C14_SkipActionsSucceed ==
    (Returned /\ SkipRequested) => success = "True" /\ NoCollaboratorCalled

\* C14 amended: a run for a payload with a skipped action calls no
\* collaborator; it returns True when the payload carries owner, repository
\* name and PR number, and False when one of them is missing, the required
\* fields being tested first.
C14_SkipActionsShortCircuit ==
    (Returned /\ SkipRequested) =>
        /\ NoCollaboratorCalled
        /\ success = "True" <=> HasRequired

\* A run for a complete payload with a skipped action has returned True.
C14_Witness ==
    /\ Returned /\ SkipRequested /\ HasRequired
    /\ success = "True"
    /\ response.status = 200

-----------------------------------------------------------------------------
(* C15 *)

\* The three answers of the handler to a request that passed the signature
\* and JSON gates.
IgnoredResponse == [status |-> 200, message |-> "Event type ignored"]
SuccessResponse == [status |-> 200, message |-> "PR event processed successfully"]
FailureResponse == [status |-> 500, message |-> "Failed to process PR event"]

\* The handler has answered a request that passed the signature and JSON
\* gates.
Answered ==
    /\ ppc = "responded"
    /\ ~(request.secret /\ ~verify_github_signature(request))
    /\ request.body = "object"

PullRequestEvent == request.event_type = "pull_request"

\* A pull_request event lacking owner, repository name or PR number.
Malformed == PullRequestEvent /\ ~HasRequired

\* An event of another type, or a well-formed pull_request event with a
\* skipped action.
Irrelevant == ~PullRequestEvent \/ (HasRequired /\ SkipRequested)

\* C15 as stated: a malformed event and an irrelevant event are both answered
\* with the ignored outcome, which is neither the success nor the failure
\* outcome.
C15_IgnoredOutcome ==
    (Answered /\ (Malformed \/ Irrelevant)) =>
        /\ response = IgnoredResponse
        /\ response \notin {SuccessResponse, FailureResponse}

\* C15 amended: only an event of another type than pull_request is answered
\* with the ignored outcome (and process_pr_event is not called for it); a
\* malformed pull_request event is answered with the failure outcome and a
\* well-formed one with a skipped action with the success outcome.
C15_IgnoredOnlyByEventType ==
    Answered =>
        /\ ~PullRequestEvent =>
              response = IgnoredResponse /\ ~Returned /\ NoCollaboratorCalled
        /\ Malformed => response = FailureResponse /\ success = "False"
        /\ (PullRequestEvent /\ HasRequired /\ SkipRequested) =>
              response = SuccessResponse /\ success = "True"
        /\ response = IgnoredResponse => ~PullRequestEvent
        /\ IgnoredResponse \notin {SuccessResponse, FailureResponse}

\* A push event carrying a complete payload has been answered as ignored.
C15_Witness ==
    /\ Answered /\ ~PullRequestEvent
    /\ request.payload # EmptyDict /\ HasRequired
    /\ response = IgnoredResponse

-----------------------------------------------------------------------------
(* C16 *)

\* The positions of the handler and of send_to_discord in the order the code
\* goes through them.
PipeOrder ==
    <<"listening", "process", "core", "comments", "issue_comments", "reviews",
      "files", "prompt", "primary", "fallback", "deliver", "responded">>
CallOrder == <<"idle", "overview", "chunk", "reviews", "done">>

\* The index of x in seq, 0 when it is not there.
IndexIn(seq, x) ==
    IF \E j \in 1..Len(seq) : seq[j] = x
    THEN CHOOSE j \in 1..Len(seq) : seq[j] = x
    ELSE 0

\* How far the handler has come; every step takes it further.
Progress == IndexIn(PipeOrder, ppc) * 10000 + IndexIn(CallOrder, pc) * 100 + i

\* The statuses github_webhook answers with.
DefiniteStatuses == {200, 400, 401, 500}

\* The handler stands at a position whose step can be taken: up to the call of
\* send_to_discord every position has one step, guarded by the position
\* alone; inside the call the chunk loop needs a chunk left to post.
CanStep ==
    \/ ppc \in {"listening", "process", "core", "prompt", "primary", "fallback"}
    \/ \E j \in 1..Len(SecondaryOrder) : ppc = SecondaryOrder[j]
    \/ /\ ppc = "deliver"
       /\ \/ pc \in {"idle", "overview", "reviews", "done"}
          \/ pc = "chunk" /\ i < Len(summary_chunks)

\* C16: whatever the request and whatever the collaborators answer, the
\* handler ends with exactly one response of a definite status and no
\* exception leaves it: until it has responded a next step is always possible,
\* every step takes it further through a finite sequence of positions, the
\* response is set by the step that ends the handler and by no other, no step
\* follows it, and it carries one of the statuses of the code.
C16_HandlerResponds ==
    /\ [](ppc = "responded" \/ CanStep)
    /\ [][ppc # "responded" /\ Progress' > Progress]_vars
    /\ [](ppc # "responded" <=> response = NoResponse)
    /\ [](ppc = "responded" =>
            /\ response.status \in DefiniteStatuses
            /\ response.status = 200 <=> response.message \in
                  {"PR event processed successfully", "Event type ignored"})

\* The handler has answered a request whose run went through a failed
\* secondary fetch, two failed generation requests and a failed post.
C16_Witness ==
    /\ ppc = "responded"
    /\ response.status = 500
    /\ \E j \in 1..Len(calls) : calls[j].to = "github" /\ calls[j].failed
    /\ Len(GroqCalls) = 2 /\ GroqCalls[2].failed
    /\ posts # <<>> /\ posts[Len(posts)].outcome # "ok"

-----------------------------------------------------------------------------
(* C17 *)

\* The primary and the fallback generation request have both raised.
BothRaised == Len(GroqCalls) = 2 /\ GroqCalls[1].failed /\ GroqCalls[2].failed

\* send_to_discord has been called with the summary.
DeliveryEntered == pc # "idle" /\ summary = generated

-----------------------------------------------------------------------------
(* C18 *)

\* The summarizer has returned a summary.
SummaryReturned == ppc = "deliver" \/ (ppc = "responded" /\ pc # "idle")

\* C18: the generation requests of a run are the primary one, once, and then
\* the fallback one, at most once and only after the primary one raised;
\* nothing is requested after a request that succeeded or after the fallback;
\* a summary is returned only after the primary request was made, and it is
\* the local template only if both requests raised.
C18_GenerationRequestsOnce ==
    /\ Len(GroqCalls) <= 2
    /\ Len(GroqCalls) >= 1 => GroqCalls[1].what = "primary"
    /\ Len(GroqCalls) = 2 => GroqCalls[1].failed /\ GroqCalls[2].what = "fallback"
    /\ ppc = "fallback" => Len(GroqCalls) = 1 /\ GroqCalls[1].failed
    /\ SummaryReturned =>
          /\ Len(SelectSeq(calls, LAMBDA c : c.what = "primary")) = 1
          /\ generated \in GeneratedTexts <=> ~GroqCalls[Len(GroqCalls)].failed
          /\ generated \notin GeneratedTexts => BothRaised

\* The primary request raised, the fallback request answered, and its text is
\* the summary returned.
C18_Witness ==
    /\ SummaryReturned
    /\ Len(GroqCalls) = 2
    /\ GroqCalls[1].failed /\ ~GroqCalls[2].failed
    /\ generated \in GeneratedTexts

-----------------------------------------------------------------------------
(* C19 *)

\* The posts and the calls of run r, in the order they were made.
OwnPosts(r) == SelectSeq(posts, LAMBDA m : m.run = r)
OwnCalls(r) == SelectSeq(calls, LAMBDA c : c.run = r)

\* Every post of the sequence succeeded.
AllOk(ps) == \A j \in 1..Len(ps) : ps[j].outcome = "ok"

\* The posts of a run are the overview, then the chunks in index order, then
\* the key-reviews message, and only the last of them can have failed.
InOrder(r) ==
    LET own == OwnPosts(r)
        n == Len(runs[r].summary_chunks)
    IN  \A j \in 1..Len(own) :
           /\ j = 1 <=> own[j].kind = "overview"
           /\ own[j].kind = "chunk" => own[j].part = j - 1 /\ j - 1 <= n
           /\ own[j].kind = "reviews" => j = n + 2 /\ Len(runs[r].reviews) > 0
           /\ j < Len(own) => own[j].outcome = "ok"

\* The run has made every call of a complete run, each once: the fetch, the
\* generation request, and the overview, every chunk and, when there are
\* reviews, the key-reviews message.
Complete(r) ==
    /\ Len(OwnCalls(r)) = 2
    /\ OwnCalls(r)[1].what = "pull" /\ OwnCalls(r)[2].what = "primary"
    /\ Len(OwnPosts(r)) = 1 + Len(runs[r].summary_chunks)
                            + (IF Len(runs[r].reviews) > 0 THEN 1 ELSE 0)

-----------------------------------------------------------------------------
(* C20 *)

\* C20: the colour of the overview embed is green for opened, blue for
\* synchronize, orange for reopened, purple for closed, spring green for
\* ready_for_review, and for any other action or none it is green when the
\* state of the PR is open and purple otherwise.
C20_ColourByAction ==
    pc = "format" =>
        embed.color =
            CASE event_action = "opened" -> 65280
              [] event_action = "synchronize" -> 39423
              [] event_action = "reopened" -> 16753920
              [] event_action = "closed" -> 7291585
              [] event_action = "ready_for_review" -> 65407
              [] OTHER -> IF pr_info["basic"].state.v = "open" THEN 65280 ELSE 7291585

\* The embed of a closed PR has been built for an action that is not in the
\* map, and it is purple.
C20_Witness ==
    /\ pc = "format"
    /\ event_action = "edited"
    /\ pr_info["basic"].state.v = "closed"
    /\ embed.color = Purple

-----------------------------------------------------------------------------
(* C21 *)

\* A request has arrived.
Arrived == ppc # "listening"

\* C21: a request whose body is not valid JSON is answered 400, whether a
\* webhook secret is configured or not, and the pipeline is not run.
C21_InvalidJsonIs400 ==
    (Arrived /\ request.body = "invalid_json") =>
        /\ response.status = 400
        /\ ~Returned
        /\ NoCollaboratorCalled

-----------------------------------------------------------------------------
(* C22 *)

\* C22: with a webhook secret configured, a request whose signature header is
\* missing or differs from the HMAC-SHA256 of the body is answered 401 by the
\* first step of the handler and process_pr_event is never called for it: no
\* fetch, no generation request, no post.  Without a secret no request is
\* answered 401, whatever its header.
C22_SignatureGate ==
    Arrived =>
        /\ (request.secret /\ request.signature # "valid") =>
              /\ ppc = "responded"
              /\ response = [status |-> 401, message |-> "Invalid signature"]
              /\ ~Returned
              /\ NoCollaboratorCalled
        /\ (~request.secret \/ request.signature = "valid") => response.status # 401

\* A complete pull_request event with a wrong signature has been answered 401
\* by a server with a secret.
C22_Witness ==
    /\ Arrived
    /\ request.secret /\ request.signature = "invalid"
    /\ request.body = "object" /\ PullRequestEvent /\ HasRequired /\ ~SkipRequested
    /\ response.status = 401

-----------------------------------------------------------------------------
(* C23, C24 *)

\* The context has been built.
ContextBuilt == pc = "context"

\* The positions of the comments quoted: among the first `first` fetched, with
\* a body longer than the floor.
Quoted(items, first) ==
    {j \in 1..Len(items) : j <= first /\ StrLen(items[j].body.v) > CommentFloor}

\* The lines are those of the quoted comments, one each, in fetch order, each
\* with its body cut to `cut` characters.
QuotesExactly(lines, items, first, cut) ==
    /\ Len(lines) = Cardinality(Quoted(items, first))
    /\ \A k \in 1..Len(lines) :
          \E j \in Quoted(items, first) :
             /\ lines[k].user = items[j].user
             /\ lines[k].body = Prefix(items[j].body.v, cut)
             /\ StrLen(lines[k].body) <= cut
             /\ Cardinality({m \in Quoted(items, first) : m < j}) = k - 1
    /\ \A j \in (1..Len(items)) \ Quoted(items, first) :
          \A k \in 1..Len(lines) : lines[k].user # items[j].user

\* C23: the prompt quotes an inline review comment only if it is among the
\* first 6 fetched and its body is longer than 20 characters, cut to 250
\* characters, and a discussion comment only if it is among the first 3
\* fetched and longer than 20 characters, cut to 200; a comment at a later
\* position is never quoted, however few earlier ones passed the floor.
C23_CommentsQuoted ==
    ContextBuilt =>
        /\ QuotesExactly(context.comments, pr_info["comments"], 6, 250)
        /\ QuotesExactly(context.discussion, pr_info["issue_comments"], 3, 200)

\* Seven inline comments and four discussion comments were fetched, only the
\* last of each long enough, and no comment is quoted.
C23_Witness ==
    /\ ContextBuilt
    /\ Len(pr_info["comments"]) = 7
    /\ Quoted(pr_info["comments"], 7) = {7}
    /\ Len(pr_info["issue_comments"]) = 4
    /\ Quoted(pr_info["issue_comments"], 4) = {4}
    /\ context.comments = <<>>
    /\ context.discussion = <<>>
    /\ context.comments_total = <<7>>

\* The text holds the body: the bodies of the inputs are runs of one
\* character, each comment its own.
Shows(text, body) ==
    \E r \in 1..Len(text) : text[r][1] = body[1][1]

\* No line carries the author or any character of the body of the comment.
LeavesNoTrace(lines, comment) ==
    \A k \in 1..Len(lines) :
        /\ lines[k].user # comment.user
        /\ ~Shows(lines[k].body, comment.body.v)

\* C24: a comment, inline or discussion, whose body has at most 20 characters
\* puts neither its body nor its author line into the comment sections.
C24_ShortCommentsOmitted ==
    ContextBuilt =>
        /\ \A j \in 1..Len(pr_info["comments"]) :
              StrLen(pr_info["comments"][j].body.v) <= 20 =>
                  LeavesNoTrace(context.comments, pr_info["comments"][j])
        /\ \A j \in 1..Len(pr_info["issue_comments"]) :
              StrLen(pr_info["issue_comments"][j].body.v) <= 20 =>
                  LeavesNoTrace(context.discussion, pr_info["issue_comments"][j])

\* A comment of exactly 20 characters stands among the first fetched, between
\* comments that are quoted.
C24_Witness ==
    /\ ContextBuilt
    /\ Len(pr_info["comments"]) >= 5
    /\ StrLen(pr_info["comments"][4].body.v) = 20
    /\ Len(context.comments) = 4
    /\ Len(pr_info["issue_comments"]) = 4
    /\ StrLen(pr_info["issue_comments"][4].body.v) = 20
    /\ Len(context.discussion) = 3

-----------------------------------------------------------------------------
(* C25, C26, C27 *)

\* The changed files of the record and their number of changes.
Files == pr_info["files"]
Changes(j) == Files[j].changes.v

\* The number of files that stand before the j-th once the list is sorted by
\* changes, largest first, equal ones in fetch order.
Rank(j) ==
    Cardinality({m \in 1..Len(Files) :
                    Changes(m) > Changes(j) \/ (Changes(m) = Changes(j) /\ m < j)})

\* The files among the first eight of that order.
Top == {j \in 1..Len(Files) : Rank(j) < 8}

\* The file lines are those of the files of the set, one each, in the order
\* of their rank, each with the glyph of its status, its name and its counts.
RendersExactly(shown) ==
    /\ Len(context.files) = Cardinality(shown)
    /\ \A j \in shown :
          LET k == 1 + Cardinality({m \in shown : Rank(m) < Rank(j)})
          IN  context.files[k] =
                 [glyph |-> FileGlyph(Files[j].status.v),
                  filename |-> Files[j].filename.v,
                  additions |-> Files[j].additions.v,
                  deletions |-> Files[j].deletions.v]

\* C25 as stated: for a non-empty list of files the prompt renders each of
\* the first 8 by changes, largest first (all of them when there are 8 or
\* fewer), with glyph and counts, and no other file.
C25_FirstEightRendered ==
    (ContextBuilt /\ Files # <<>>) => RendersExactly(Top)

\* C25: the prompt renders those of the first 8 files by changes that have at
\* least one change, largest first, with glyph and counts, and no other file.
C25_ChangedOfFirstEightRendered ==
    (ContextBuilt /\ Files # <<>>) =>
        RendersExactly({j \in Top : Changes(j) > 0})

\* Nine files were fetched, one of the first eight by changes has no change,
\* and seven lines are rendered.
C25_Witness ==
    /\ ContextBuilt
    /\ Len(Files) = 9
    /\ \E j \in Top : Changes(j) = 0
    /\ \E j \in 1..Len(Files) : j \notin Top /\ Changes(j) = 0
    /\ Len(context.files) = 7

\* The number of files outside the first eight that have the status.
Remaining(status) ==
    Cardinality({j \in 1..Len(Files) : j \notin Top /\ Files[j].status.v = status})

\* C26: with more than 8 files the rollup line reports the number of files
\* left (total minus 8) and the numbers of added, modified and removed files
\* among those left, whose sum does not exceed the number left.
C26_RollupCountsRemaining ==
    (ContextBuilt /\ Len(Files) > 8) =>
        /\ Len(context.rollup) = 1
        /\ context.rollup[1].more = Len(Files) - 8
        /\ context.rollup[1].new = Remaining("added")
        /\ context.rollup[1].modified = Remaining("modified")
        /\ context.rollup[1].deleted = Remaining("removed")
        /\ context.rollup[1].new + context.rollup[1].modified
             + context.rollup[1].deleted <= context.rollup[1].more

\* The bucket of a name: the first of dependency, critical, config whose
\* patterns the lower-cased name contains.
FirstMatch(name) ==
    IF ContainsAny(DependencyPatterns, Lower(name)) THEN "dependency"
    ELSE IF ContainsAny(CriticalPatterns, Lower(name)) THEN "critical"
    ELSE IF ContainsAny(ConfigPatterns, Lower(name)) THEN "config"
    ELSE "none"

\* The buckets whose patterns the name contains.
AllMatches(name) ==
    {b \in {"dependency", "critical", "config"} :
        ContainsAny(CASE b = "dependency" -> DependencyPatterns
                      [] b = "critical" -> CriticalPatterns
                      [] OTHER -> ConfigPatterns, Lower(name))}

\* The classification lines are those of the three buckets: a line naming the
\* first 3 files of a non-empty dependency or critical bucket, a count of the
\* config bucket exactly when it holds more than 3 files.
LinesOf(dependency, critical, config) ==
    /\ context.dependencies =
          IF dependency # <<>> THEN <<SubSeq(dependency, 1, Min(3, Len(dependency)))>> ELSE <<>>
    /\ context.critical =
          IF critical # <<>> THEN <<SubSeq(critical, 1, Min(3, Len(critical)))>> ELSE <<>>
    /\ context.configuration = IF Len(config) > 3 THEN <<Len(config)>> ELSE <<>>

\* C27 as stated: a file is placed in every bucket whose patterns its name
\* contains, and the lines are those of the buckets so filled.
C27_EveryMatchingBucket ==
    (ContextBuilt /\ Files # <<>>) =>
        LinesOf(SelectSeq(FileNames(Files), LAMBDA n : "dependency" \in AllMatches(n)),
                SelectSeq(FileNames(Files), LAMBDA n : "critical" \in AllMatches(n)),
                SelectSeq(FileNames(Files), LAMBDA n : "config" \in AllMatches(n)))

\* C27: a file is placed in one bucket only, the first of dependency,
\* critical, config whose patterns its name contains, and the lines are those
\* of the buckets so filled.
C27_FirstMatchingBucket ==
    (ContextBuilt /\ Files # <<>>) =>
        LinesOf(SelectSeq(FileNames(Files), LAMBDA n : FirstMatch(n) = "dependency"),
                SelectSeq(FileNames(Files), LAMBDA n : FirstMatch(n) = "critical"),
                SelectSeq(FileNames(Files), LAMBDA n : FirstMatch(n) = "config"))

\* Four files or more match the dependency and the config patterns at once:
\* the dependency line names three of them and no configuration count is
\* emitted.
C27_Witness ==
    /\ ContextBuilt
    /\ Cardinality({j \in 1..Len(Files) :
                       {"dependency", "config"} \subseteq AllMatches(Files[j].filename.v)}) >= 4
    /\ Len(context.dependencies) = 1
    /\ Len(context.dependencies[1]) = 3
    /\ context.configuration = <<>>

-----------------------------------------------------------------------------
(* C28 *)

\* The splitter has run on a summary above the threshold made of exactly three
\* sections a, b, c with len(a) + len(b) > 1900 and len(b) + len(c) <= 1900.
ThreeSections ==
    /\ pc = "split"
    /\ StrLen(summary) > 1900
    /\ Len(SplitBlank(summary)) = 3
    /\ StrLen(SplitBlank(summary)[1]) + StrLen(SplitBlank(summary)[2]) > 1900
    /\ StrLen(SplitBlank(summary)[2]) + StrLen(SplitBlank(summary)[3]) <= 1900

\* The second and third sections joined by a blank line.
LastTwoJoined == Cat(SplitBlank(summary)[2], Cat(Rep(NL, 2), SplitBlank(summary)[3]))

\* C28 as stated: such a summary is split into exactly two chunks, the first
\* section alone and the two others joined by a blank line.
C28_TwoChunks ==
    ThreeSections => summary_chunks = <<SplitBlank(summary)[1], LastTwoJoined>>

\* C28: such a summary is split into the first section alone and the two
\* others joined by a blank line, each stripped of the whitespace at its ends;
\* the second chunk is missing when the second and third sections are both
\* empty.  When no section is empty or has whitespace at its ends the chunks
\* are exactly the first section and the two others joined.
C28_GreedyPacking ==
    ThreeSections =>
        LET sections == SplitBlank(summary)
            plain == \A j \in 1..3 : sections[j] # Empty /\ Strip(sections[j]) = sections[j]
        IN  /\ summary_chunks =
                 IF sections[2] = Empty /\ sections[3] = Empty
                 THEN <<Strip(sections[1])>>
                 ELSE <<Strip(sections[1]), Strip(LastTwoJoined)>>
            /\ plain => summary_chunks = <<sections[1], LastTwoJoined>>

\* Sections of 1000, 1000 and 200 characters have been split into the first
\* alone and the two others joined.
C28_Witness ==
    /\ ThreeSections
    /\ StrLen(SplitBlank(summary)[1]) = 1000
    /\ StrLen(SplitBlank(summary)[2]) = 1000
    /\ StrLen(SplitBlank(summary)[3]) = 200
    /\ Len(summary_chunks) = 2
    /\ summary_chunks[1] = SplitBlank(summary)[1]
    /\ StrLen(summary_chunks[2]) = 1202

-----------------------------------------------------------------------------
(* C29 *)

\* C29: for the action "closed" the title of the overview carries the merged
\* glyph exactly when GitHub reported the pull request as merged, and the
\* not-merged glyph otherwise.
C29_MergedGlyph ==
    (pc = "format" /\ event_action = "closed") =>
        embed.emoji = IF upstream.merged.v THEN "CHECK_MARK" ELSE "CROSS_MARK"

-----------------------------------------------------------------------------
(* C30 *)

\* get_pr_files has ended, by returning or by raising.
Ended == analyzer \in {"returned", "raised"}

\* The answer to the last page request.
LastAnswer == requested[Len(requested)].outcome

\* The files of the pages answered so far, page after page, as the requests
\* were answered.
RECURSIVE FilesOfPages(_)
FilesOfPages(log) ==
    IF log = <<>> THEN <<>>
    ELSE FilesOfPages(SubSeq(log, 1, Len(log) - 1))
            \o [j \in 1..log[Len(log)].files |-> <<log[Len(log)].page, j>>]

\* The pages requested are 1, 2, 3, ... in order, and every request but the
\* last was answered with files.
PagesInOrder ==
    /\ \A k \in 1..Len(requested) : requested[k].page = k
    /\ \A k \in 1..(Len(requested) - 1) : requested[k].outcome = "files"

\* C30 as stated: get_pr_files ends exactly when a page comes back empty or a
\* page request is answered with a status other than 200.
C30_EndsOnEmptyOrStatus ==
    analyzer # "idle" =>
        (Ended <=> (requested # <<>> /\ LastAnswer \in {"empty", "status"}))

\* What holds of every state of a call of get_pr_files.
PagesSafe ==
    analyzer # "idle" =>
        /\ PagesInOrder
        /\ all_files = FilesOfPages(requested)
        /\ analyzer = "running" =>
              /\ page = Len(requested) + 1
              /\ requested # <<>> => LastAnswer = "files"
        /\ analyzer = "returned" <=> (requested # <<>> /\ LastAnswer = "empty")
        /\ analyzer = "returned" => returned = <<FilesOfPages(requested)>>
        /\ analyzer = "raised" <=>
              (requested # <<>> /\ LastAnswer \in {"status", "transport", "invalid_json"})
        /\ analyzer # "returned" => returned = <<>>

\* C30: get_pr_files requests pages 1, 2, 3, ... in order and ends exactly
\* when a page comes back empty (it returns the files of all earlier pages in
\* page order) or when a page request fails, by a status other than 200, by an
\* exception of the request or by an answer that is not JSON (it raises and
\* returns nothing); when every request is answered and only finitely many
\* pages hold files, the call ends.
C30_PagesUntilEmptyOrFailure ==
    /\ []PagesSafe
    /\ (analyzer = "running") ~> Ended

\* Three pages of files were fetched, the fourth came back empty and the
\* files of the three were returned in page order.
C30_Witness ==
    /\ analyzer = "returned"
    /\ Len(requested) = 4
    /\ Len(returned[1]) >= 5
    /\ returned[1][1] = <<1, 1>>
    /\ returned[1][Len(returned[1])][1] = 3

=============================================================================
